---------------------------- MODULE Spec2Model ----------------------------
(***************************************************************************)
(* State-machine model of the rusEFI electronic throttle controller        *)
(* (EtbController / EtbImpl) and of the limp manager (LimpManager).        *)
(*                                                                         *)
(* Build modelled: production firmware, EFI_UNIT_TEST = 0,                 *)
(* EFI_TUNER_STUDIO = 1, EFI_SHAFT_POSITION_INPUT = 1, EFI_HD_ACR = 1,     *)
(* EFI_LAUNCH_CONTROL = 1.                                                 *)
(*                                                                         *)
(* Floating point percentages are modelled as integers; a duty is kept in  *)
(* hundredths (0.9 is 90).  Times are whole seconds; a Timer is modelled   *)
(* by its age, saturating at MaxAge ("long ago").                          *)
(***************************************************************************)
EXTENDS Integers, Sequences, FiniteSets, TLC

VARIABLES
    \* ---- LimpManager ----
    m_allowEtb, m_allowInjection, m_allowIgnition, m_allowTriggerInput,
    m_transientAllowInjection, m_transientAllowIgnition,
    m_faultRevLimit, m_ignitionOn,
    m_revLimit, resumeRpm,
    m_revLimitHysteresis, m_boostCutHysteresis, m_injectorDutyCutHysteresis,
    m_hadOilPressureAfterStart,
    m_lowOilPressureTimer, m_injectorDutySustainedTimer, m_lastCutTime,
    \* ---- EtbController (one controller instance) ----
    m_function, m_positionSensor, m_motor, m_pid, m_pedalProvider,
    m_shouldResetPid, etbErrorCode,
    etbTpsErrorCounter, etbPpsErrorCounter, hadTpsError, hadPpsError,
    m_isAutotune, m_isAutocal,
    m_lastIsPositive, m_autotuneCounter, m_autotuneCurrentParam,
    directPwmValue,  \* file-static manual duty, NAN when no override
    \* ---- the DC motor behind m_motor, and the TunerStudio channel ----
    motorEnabled, motorDuty, calibrationMode,
    etbRevLimitActive,      \* output channel: the ETB rev limiter changed the target
    luaAdjustment,          \* the adjustment last handed to setLuaAdjustment
    m_luaAdjustmentTimer,   \* tenths of a second since then, up to MaxLuaAge
    \* ---- configuration and engine state the controller reads ----
    env,
    \* ---- bookkeeping of the calls made so far ----
    lastOp,          \* the operation that ran last: << name, argument >>
    fatalErrorCalled,\* fatalError() has been called
    tpsInvalidRun,   \* update() cycles in a row with an invalid position read,
                     \* counted from a cycle that found both fault counters at 0
    tpsFaultEvents,  \* position reads that turned from valid to invalid
    prevPlantValid,  \* validity of the position read of the previous cycle
                     \* that checked the sensors
    prevPedalValid,  \* the same for the pedal read, followed in SpecCounters
    dutyOverFor,     \* seconds (up to MaxAge) the injector duty has been above
                     \* maxInjectorDutySustained on every tick, counted in SpecCut
    sinceStart,      \* seconds (up to MaxSinceStart) the engine has been running,
                     \* counted in SpecOilStart
    sawPressure,     \* a valid oil pressure above minOilPressureAfterStart was
                     \* read within the first 5 s of this run
    fallingEdges,    \* falling edges of (observed > target) seen by the autotune
                     \* relay so far, up to MaxEdges, counted in SpecAutotune
    steps,           \* what the last operation did, in order: << step, argument >>
    isOk,            \* result of checkStatus() in the last operation (TRUE if none)
    output,          \* combined output computed by the last operation (unexpected if none)
    initResult,      \* result of the last init()
    limitsPassed,    \* every limit handed to setFaultRevLimit so far
    \* ---- the start/stop button ----
    startStopState,               \* engineState.startStopState: the last read
    startStopStateToggleCounter,  \* engineState.startStopStateToggleCounter
    startStopStateLastPushTime,   \* engine->startStopStateLastPushTime, in
                                  \* seconds; 0: nothing is going on
    starterControl,               \* enginePins.starterControl, the output's value
    now                           \* getTimeNowNt() at the last call, in seconds,
                                  \* counted anew from 1 while no push is pending

limpVars == << m_allowEtb, m_allowInjection, m_allowIgnition, m_allowTriggerInput,
               m_transientAllowInjection, m_transientAllowIgnition,
               m_faultRevLimit, m_ignitionOn, m_revLimit, resumeRpm,
               m_revLimitHysteresis, m_boostCutHysteresis,
               m_injectorDutyCutHysteresis, m_hadOilPressureAfterStart,
               m_lowOilPressureTimer, m_injectorDutySustainedTimer,
               m_lastCutTime, limitsPassed >>

ctlVars == << m_function, m_positionSensor, m_motor, m_pid, m_pedalProvider,
              m_shouldResetPid, etbErrorCode, etbTpsErrorCounter,
              etbPpsErrorCounter, hadTpsError, hadPpsError, m_isAutotune,
              m_isAutocal, m_lastIsPositive, m_autotuneCounter,
              m_autotuneCurrentParam >>

motorVars == << motorEnabled, motorDuty, calibrationMode >>

logVars == << steps, isOk, output, initResult >>

luaVars == << luaAdjustment, m_luaAdjustmentTimer >>

etbVars == << ctlVars, directPwmValue, motorVars, etbRevLimitActive, luaVars, env,
             logVars >>

runVars == << tpsInvalidRun, tpsFaultEvents, prevPlantValid, prevPedalValid,
             dutyOverFor,
             sinceStart, sawPressure, fallingEdges >>

buttonVars == << startStopState, startStopStateToggleCounter,
                 startStopStateLastPushTime, starterControl, now >>

vars == << limpVars, etbVars, lastOp, fatalErrorCalled, runVars, buttonVars >>

-----------------------------------------------------------------------------
(* Bounds of the model *)

\* a Timer's age saturates here: "reset longer ago than any timeout used"
MaxAge == 2

\* the same for the Lua adjustment's timer, in tenths of a second
MaxLuaAge == 3

\* the seconds since engine start saturate here, above the 5 s of the oil check
MaxSinceStart == 6

-----------------------------------------------------------------------------
(* Small helpers *)

Min2(a, b) == IF a <= b THEN a ELSE b

SetMin(S) == CHOOSE x \in S : \A y \in S : x <= y

BOOL == {TRUE, FALSE}

\* limp_manager.h is not part of the sources at hand: int32_t m_faultRevLimit
\* starts at "no limit"
INT32_MAX == 2147483647

-----------------------------------------------------------------------------
(* Clearable: a flag that can only be cleared, and remembers why *)

\* Clearable(): set, no reason
ClearableSet == [value |-> TRUE, clearReason |-> "None"]

\* Clearable(bool): a flag built from a configuration bit
ClearableOf(b) == [value |-> b, clearReason |-> IF b THEN "None" ELSE "Settings"]

\* Clearable::clear(reason): the first reason to clear the flag is kept
clear(c, reason) ==
    IF c.value THEN [value |-> FALSE, clearReason |-> reason] ELSE c

\* a condition that gives the permission back when it does not hold
clearIf_restores(c, cond, reason) == IF cond THEN clear(c, reason) ELSE ClearableSet

clearIf(c, cond, reason) == IF cond THEN clear(c, reason) ELSE c

-----------------------------------------------------------------------------
(* Hysteresis helpers and timers used by LimpManager::updateState *)

\* Hysteresis::test(risingCondition, fallingCondition)
HysteresisTest(state, rising, falling) ==
    IF rising THEN TRUE ELSE IF falling THEN FALSE ELSE state

\* Hysteresis::test(value, rising, falling)
HysteresisTestValue(state, value, rising, falling) ==
    HysteresisTest(state, value > rising, value < falling)

\* MaxLimitWithHysteresis::checkIfLimitIsExceeded(value, maxLimit, hysteresis)
checkIfLimitIsExceeded(state, value, maxLimit, hysteresis) ==
    IF state
    THEN ~(value < maxLimit - hysteresis)
    ELSE value >= maxLimit

\* a timer's age after dt more seconds
Aged(age, dt) == Min2(age + dt, MaxAge)

\* Timer::hasElapsedSec(seconds)
hasElapsedSec(age, seconds) == age > seconds

-----------------------------------------------------------------------------
(* LimpManager *)

\* What one updateState(rpm, nowNt) call reads from outside the manager: the
\* configuration, the sensors and the other modules it asks.
\*   dt: seconds since the previous tick (nowNt)
LimpBase ==
    [ rpm |-> 1000, dt |-> 1,
      isInjectionEnabled |-> TRUE, isIgnitionEnabled |-> TRUE,
      directSelfStimulation |-> FALSE,
      gdiCommsLost |-> FALSE,          \* isGdiEngine && externalRusEfiGdiModule && comms older than 1 s
      luaIgnCut |-> FALSE, luaFuelCut |-> FALSE,
      acrCut |-> FALSE,                \* HarleyAcr active && cutFuelInAcr
      rpmHardLimit |-> 7000, rpmHardLimitHyst |-> 500,
      cutFuelOnHardLimit |-> TRUE, cutSparkOnHardLimit |-> TRUE,
      lambdaCut |-> FALSE,             \* lambdaMonitor.isCut()
      noPhaseSync |-> FALSE,           \* noFiringUntilVvtSync && !hasSynchronizedPhase
      boostCutPressure |-> 0, boostCutPressureHyst |-> 20, map |-> 100,
      isRunning |-> TRUE, isTimedOut |-> TRUE, \* more than 5 s since engine start
      hasOilpSensor |-> TRUE, oilpValid |-> TRUE, oilp |-> 300,
      minOilPressureAfterStart |-> 0,
      enableOilPressureProtect |-> FALSE, minPressure |-> 100,
      minimumOilPressureTimeout |-> 1,
      isEngineStop |-> FALSE,          \* shutdownController.isEngineStop(nowNt)
      injDutyCycle |-> 10,             \* getInjectorDutyCycle(rpm)
      maxInjectorDutyInstant |-> 95, maxInjectorDutySustained |-> 80,
      maxInjectorDutySustainedTimeout |-> 1,
      isCylinderCleanupEnabled |-> FALSE, driverThrottleIntent |-> 0,
      launchFuelCut |-> FALSE, launchSparkCut |-> FALSE ]

CLEANUP_MODE_TPS == 90

\* "Only reset once below 20% duty"
LOW_DUTY_CLEAR == 20

\* a rev limit that resumes at the limit itself
updateRevLimit_noResumeDrop(in) ==
    [ m_revLimit |-> in.rpmHardLimit, resumeRpm |-> in.rpmHardLimit ]

\* the duty cut tripped by the instantaneous threshold alone
dutyLimitTripped_instantOnly(in, injAge) ==
    in.injDutyCycle > in.maxInjectorDutyInstant

\* the duty cut tripped by any injection at all
dutyLimitTripped_anyDuty(in, injAge) == in.injDutyCycle > 0

\* someLimitTripped: the instantaneous threshold is exceeded, or the sustained
\* one has been for longer than the timeout; injAge is the sustained timer's age
dutyLimitTripped(in, injAge) ==
    \/ in.injDutyCycle > in.maxInjectorDutyInstant
    \/ hasElapsedSec(injAge, in.maxInjectorDutySustainedTimeout)

\* LimpManager::updateRevLimit: { m_revLimit, resumeRpm }
updateRevLimit(in) ==
    [ m_revLimit |-> in.rpmHardLimit,
      resumeRpm  |-> in.rpmHardLimit - in.rpmHardLimitHyst ]

\* the oil pressure flag set by a good reading at any time of the run
hadOilPressureAfterStart_anyTime(in, had) ==
    IF ~in.isRunning THEN FALSE
    ELSE IF in.minOilPressureAfterStart > 0 /\ in.hasOilpSensor /\ in.oilpValid
            /\ in.oilp > in.minOilPressureAfterStart
         THEN TRUE
         ELSE had

\* m_hadOilPressureAfterStart after a tick: set by a valid reading above the
\* minimum before the check has timed out, cleared when the engine is not running
hadOilPressureAfterStart(in, had) ==
    IF ~in.isRunning THEN FALSE
    ELSE IF in.minOilPressureAfterStart > 0 /\ in.hasOilpSensor /\ ~in.isTimedOut
            /\ in.oilpValid /\ in.oilp > in.minOilPressureAfterStart
         THEN TRUE
         ELSE had

\* the spark permission with the fault RPM ceiling cutting spark as well
allowSparkAfter_faultLimitCuts(in, ignOff, revHyst) ==
    LET s0 == ClearableOf(in.isIgnitionEnabled)
        s1 == clearIf(s0, ignOff, "IgnitionOff")
        s2 == clearIf(s1, in.luaIgnCut, "Lua")
        s3 == clearIf(s2, revHyst /\ in.cutSparkOnHardLimit, "HardLimit")
        s4 == clearIf(s3, in.noPhaseSync, "EnginePhase")
        s5 == clearIf(s4, in.rpm > m_faultRevLimit, "FaultRevLimit")
    IN  clearIf(s5, in.launchSparkCut, "LaunchCut")

\* allowSpark in LimpManager::updateState: every statement that writes it, in
\* the order of the code
allowSparkAfter(in, ignOff, revHyst) ==
    LET s0 == ClearableOf(in.isIgnitionEnabled)
        s1 == clearIf(s0, ignOff, "IgnitionOff")
        s2 == clearIf(s1, in.luaIgnCut, "Lua")
        s3 == clearIf(s2, revHyst /\ in.cutSparkOnHardLimit, "HardLimit")
        s4 == clearIf(s3, in.noPhaseSync, "EnginePhase")
    IN  clearIf(s4, in.launchSparkCut, "LaunchCut")

\* LimpManager::updateState, everything it computes in one tick
updateStateResult(in) ==
    LET \* timers as seen at nowNt
        lowOilAge0  == Aged(m_lowOilPressureTimer, in.dt)
        injAge0     == Aged(m_injectorDutySustainedTimer, in.dt)
        lastCutAge0 == Aged(m_lastCutTime, in.dt)
        \* base permissions from the configuration
        f0 == ClearableOf(in.isInjectionEnabled)
        ignOff == ~m_ignitionOn /\ ~in.directSelfStimulation
        f1 == clearIf(f0, ignOff, "IgnitionOff")
        f2 == clearIf(f1, in.gdiCommsLost, "GdiComms")
        f3 == clearIf(f2, in.luaFuelCut, "Lua")
        f4 == clearIf(f3, in.acrCut, "ACR")
        \* hard rev limit with hysteresis
        rl == updateRevLimit(in)
        revHyst == HysteresisTestValue(m_revLimitHysteresis, in.rpm,
                                       rl.m_revLimit, rl.resumeRpm)
        f5 == clearIf(f4, revHyst /\ in.cutFuelOnHardLimit, "HardLimit")
        f6 == clearIf(f5, in.lambdaCut, "LambdaProtection")
        f7 == clearIf(f6, in.noPhaseSync, "EnginePhase")
        \* fault rev limit
        f8 == clearIf(f7, in.rpm > m_faultRevLimit, "FaultRevLimit")
        \* boost cut
        boostHyst == IF in.boostCutPressure # 0
                     THEN checkIfLimitIsExceeded(m_boostCutHysteresis, in.map,
                              in.boostCutPressure, in.boostCutPressureHyst)
                     ELSE m_boostCutHysteresis
        f9 == clearIf(f8, in.boostCutPressure # 0 /\ boostHyst, "BoostCut")
        \* oil pressure, only while the engine runs
        checkAfterStart == in.isRunning /\ in.minOilPressureAfterStart > 0
                              /\ in.hasOilpSensor
        hadOil == hadOilPressureAfterStart(in, m_hadOilPressureAfterStart)
        f10 == clearIf(f9, checkAfterStart /\ in.isTimedOut /\ ~hadOil, "OilPressure")
        checkRunning == in.isRunning /\ in.oilpValid /\ in.enableOilPressureProtect
        lowOilAge == IF ~in.isRunning THEN 0
                     ELSE IF checkRunning /\ in.oilp > in.minPressure THEN 0
                     ELSE lowOilAge0
        f11 == clearIf(f10, checkRunning
                              /\ hasElapsedSec(lowOilAge, in.minimumOilPressureTimeout),
                       "OilPressure")
        f12 == clearIf(f11, in.isEngineStop, "StopRequested")
        \* injector duty cycle
        isOverSustainedDutyCycle == in.injDutyCycle > in.maxInjectorDutySustained
        isUnderLowDuty           == in.injDutyCycle < LOW_DUTY_CLEAR
        injAge == IF ~isOverSustainedDutyCycle THEN 0 ELSE injAge0
        someLimitTripped == dutyLimitTripped(in, injAge)
        dutyHyst == HysteresisTest(m_injectorDutyCutHysteresis,
                                   someLimitTripped, isUnderLowDuty)
        f13 == clearIf(f12, dutyHyst, "InjectorDutyCycle")
        f14 == clearIf(f13, ~in.isRunning /\ in.isCylinderCleanupEnabled
                              /\ in.driverThrottleIntent > CLEANUP_MODE_TPS,
                       "FloodClear")
        f15 == clearIf(f14, in.launchFuelCut, "LaunchCut")
        s5  == allowSparkAfter(in, ignOff, revHyst)
    IN  [ allowFuel |-> f15, allowSpark |-> s5,
          m_revLimit |-> rl.m_revLimit, resumeRpm |-> rl.resumeRpm,
          revHyst |-> revHyst, boostHyst |-> boostHyst, dutyHyst |-> dutyHyst,
          hadOil |-> hadOil, lowOilAge |-> lowOilAge, injAge |-> injAge,
          lastCutAge |-> IF ~f15.value \/ ~s5.value THEN 0 ELSE lastCutAge0 ]

\* what a tick stores besides the two transient permissions
storeTick(r) ==
    /\ m_revLimit' = r.m_revLimit
    /\ resumeRpm' = r.resumeRpm
    /\ m_revLimitHysteresis' = r.revHyst
    /\ m_boostCutHysteresis' = r.boostHyst
    /\ m_injectorDutyCutHysteresis' = r.dutyHyst
    /\ m_hadOilPressureAfterStart' = r.hadOil
    /\ m_lowOilPressureTimer' = r.lowOilAge
    /\ m_injectorDutySustainedTimer' = r.injAge
    /\ m_lastCutTime' = r.lastCutAge
    /\ UNCHANGED << m_allowEtb, m_allowTriggerInput, m_faultRevLimit,
                    m_ignitionOn, limitsPassed >>

\* a tick that writes its verdict to the persistent permissions as well
updateState_restoresPermission(in) ==
    \E r \in {updateStateResult(in)} :
    /\ m_transientAllowInjection' = r.allowFuel
    /\ m_transientAllowIgnition' = r.allowSpark
    /\ m_allowInjection' = r.allowFuel
    /\ m_allowIgnition' = r.allowSpark
    /\ storeTick(r)

\* LimpManager::updateState(rpm, nowNt)
updateState(in) ==
    \E r \in {updateStateResult(in)} :
    /\ m_transientAllowInjection' = r.allowFuel
    /\ m_transientAllowIgnition' = r.allowSpark
    /\ storeTick(r)
    /\ UNCHANGED << m_allowInjection, m_allowIgnition >>

\* LimpManager::onIgnitionStateChanged(ignitionOn)
onIgnitionStateChanged(ignitionOn) ==
    /\ m_ignitionOn' = ignitionOn
    /\ UNCHANGED << m_allowEtb, m_allowInjection, m_allowIgnition,
                    m_allowTriggerInput, m_transientAllowInjection,
                    m_transientAllowIgnition, m_faultRevLimit, m_revLimit,
                    resumeRpm, m_revLimitHysteresis, m_boostCutHysteresis,
                    m_injectorDutyCutHysteresis, m_hadOilPressureAfterStart,
                    m_lowOilPressureTimer, m_injectorDutySustainedTimer,
                    m_lastCutTime, limitsPassed >>

\* the limit is stored as given
faultRevLimitAfter_assigned(current, limit) == limit

\* the value setFaultRevLimit(limit) leaves in m_faultRevLimit
faultRevLimitAfter(current, limit) == Min2(current, limit)

\* LimpManager::setFaultRevLimit(limit)
setFaultRevLimit(limit) ==
    /\ m_faultRevLimit' = faultRevLimitAfter(m_faultRevLimit, limit)
    /\ limitsPassed' = limitsPassed \cup {limit}
    /\ UNCHANGED << m_allowEtb, m_allowInjection, m_allowIgnition,
                    m_allowTriggerInput, m_transientAllowInjection,
                    m_transientAllowIgnition, m_ignitionOn, m_revLimit,
                    resumeRpm, m_revLimitHysteresis, m_boostCutHysteresis,
                    m_injectorDutyCutHysteresis, m_hadOilPressureAfterStart,
                    m_lowOilPressureTimer, m_injectorDutySustainedTimer,
                    m_lastCutTime >>

\* a fatalError() that clears the permissions and leaves the ceiling alone
fatalError_keepsCeiling ==
    /\ m_allowEtb' = clear(m_allowEtb, "Fatal")
    /\ m_allowIgnition' = clear(m_allowIgnition, "Fatal")
    /\ m_allowInjection' = clear(m_allowInjection, "Fatal")
    /\ m_allowTriggerInput' = clear(m_allowTriggerInput, "Fatal")
    /\ UNCHANGED << m_faultRevLimit, limitsPassed,
                    m_transientAllowInjection, m_transientAllowIgnition,
                    m_ignitionOn, m_revLimit, resumeRpm, m_revLimitHysteresis,
                    m_boostCutHysteresis, m_injectorDutyCutHysteresis,
                    m_hadOilPressureAfterStart, m_lowOilPressureTimer,
                    m_injectorDutySustainedTimer, m_lastCutTime >>

\* LimpManager::fatalError()
fatalError ==
    /\ m_allowEtb' = clear(m_allowEtb, "Fatal")
    /\ m_allowIgnition' = clear(m_allowIgnition, "Fatal")
    /\ m_allowInjection' = clear(m_allowInjection, "Fatal")
    /\ m_allowTriggerInput' = clear(m_allowTriggerInput, "Fatal")
    /\ m_faultRevLimit' = faultRevLimitAfter(m_faultRevLimit, 0)
    /\ limitsPassed' = limitsPassed \cup {0}
    /\ UNCHANGED << m_transientAllowInjection, m_transientAllowIgnition,
                    m_ignitionOn, m_revLimit, resumeRpm, m_revLimitHysteresis,
                    m_boostCutHysteresis, m_injectorDutyCutHysteresis,
                    m_hadOilPressureAfterStart, m_lowOilPressureTimer,
                    m_injectorDutySustainedTimer, m_lastCutTime >>

\* LimpManager::allowElectronicThrottle()
allowElectronicThrottle == m_allowEtb.value

\* LimpManager::allowTriggerInput()
allowTriggerInput == m_allowTriggerInput.value

\* allowInjection() looking at the flag of the last tick first
allowInjection_transientFirst ==
    IF ~m_transientAllowInjection.value
    THEN [value |-> FALSE, reason |-> m_transientAllowInjection.clearReason]
    ELSE IF ~m_allowInjection.value
    THEN [value |-> FALSE, reason |-> m_allowInjection.clearReason]
    ELSE [value |-> TRUE, reason |-> "None"]

\* LimpManager::allowInjection(): { value, reason }
allowInjection ==
    IF ~m_allowInjection.value
    THEN [value |-> FALSE, reason |-> m_allowInjection.clearReason]
    ELSE IF ~m_transientAllowInjection.value
    THEN [value |-> FALSE, reason |-> m_transientAllowInjection.clearReason]
    ELSE [value |-> TRUE, reason |-> "None"]

\* LimpManager::allowIgnition(): { value, reason }
allowIgnition ==
    IF ~m_allowIgnition.value
    THEN [value |-> FALSE, reason |-> m_allowIgnition.clearReason]
    ELSE IF ~m_transientAllowIgnition.value
    THEN [value |-> FALSE, reason |-> m_transientAllowIgnition.clearReason]
    ELSE [value |-> TRUE, reason |-> "None"]

\* the LimpManager as constructed (limp_manager.h)
LimpInit ==
    /\ m_allowEtb = ClearableSet
    /\ m_allowInjection = ClearableSet
    /\ m_allowIgnition = ClearableSet
    /\ m_allowTriggerInput = ClearableSet
    /\ m_transientAllowInjection = ClearableSet
    /\ m_transientAllowIgnition = ClearableSet
    /\ m_faultRevLimit = INT32_MAX
    /\ m_ignitionOn = FALSE
    /\ m_revLimit = 0
    /\ resumeRpm = 0
    /\ m_revLimitHysteresis = FALSE
    /\ m_boostCutHysteresis = FALSE
    /\ m_injectorDutyCutHysteresis = FALSE
    /\ m_hadOilPressureAfterStart = FALSE
    /\ m_lowOilPressureTimer = MaxAge
    /\ m_injectorDutySustainedTimer = MaxAge
    /\ m_lastCutTime = MaxAge
    /\ limitsPassed = {}

-----------------------------------------------------------------------------
(* EtbController: types and small helpers *)

ETB_FUNCTIONS == {"DC_Throttle1", "DC_Throttle2"}

DC_FUNCTIONS == {"DC_None", "DC_Throttle1", "DC_Throttle2", "DC_IdleValve",
                 "DC_Wastegate"}

\* expected<percent_t>
Valid(v) == [valid |-> TRUE, value |-> v]
unexpected == [valid |-> FALSE, value |-> 0]

\* a float that may be NaN
NAN == [nan |-> TRUE, value |-> 0]
Num(x) == [nan |-> FALSE, value |-> x]

clampF(lo, x, hi) == IF x < lo THEN lo ELSE IF x > hi THEN hi ELSE x

clampPercentValue(x) == clampF(0, x, 100)

absF(x) == IF x < 0 THEN -x ELSE x

\* interpolateClamped(x1, y1, x2, y2, x), in whole units
interpolateClamped(x1, y1, x2, y2, x) ==
    IF x <= x1 THEN y1
    ELSE IF x >= x2 THEN y2
    ELSE y1 + ((y2 - y1) * (x - x1)) \div (x2 - x1)

\* ETB_DUTY_LIMIT 0.9, as hundredths
ETB_DUTY_LIMIT == 90

\* the conversion with the lower limit left out
ETB_PERCENT_TO_DUTY_upperOnly(x) == IF x > ETB_DUTY_LIMIT THEN ETB_DUTY_LIMIT ELSE x

\* ETB_PERCENT_TO_DUTY(x): 0.01 * x clamped to +-0.9; x in percent, duty in hundredths
ETB_PERCENT_TO_DUTY(x) == clampF(-ETB_DUTY_LIMIT, x, ETB_DUTY_LIMIT)

ETB_INTERMITTENT_LIMIT == 50

functionToPositionSensor(func) ==
    CASE func = "DC_Throttle1" -> "Tps1"
      [] func = "DC_Throttle2" -> "Tps2"
      [] func = "DC_IdleValve" -> "IdlePosition"
      [] func = "DC_Wastegate" -> "WastegatePosition"
      [] OTHER -> "Invalid"

functionToTpsSensor(func) == IF func = "DC_Throttle1" THEN "Tps1" ELSE "Tps2"

functionToCalModePriMax(func) == IF func = "DC_Throttle1" THEN "Tps1Max" ELSE "Tps2Max"
functionToCalModePriMin(func) == IF func = "DC_Throttle1" THEN "Tps1Min" ELSE "Tps2Min"
functionToCalModeSecMax(func) ==
    IF func = "DC_Throttle1" THEN "Tps1SecondaryMax" ELSE "Tps2SecondaryMax"
functionToCalModeSecMin(func) ==
    IF func = "DC_Throttle1" THEN "Tps1SecondaryMin" ELSE "Tps2SecondaryMin"

getPidForDcFunction(func) == IF func = "DC_Wastegate" THEN "etbWastegatePid" ELSE "etb"

\* EtbController::isEtbMode()
isEtbModeOf(func) == func \in ETB_FUNCTIONS
isEtbMode == isEtbModeOf(m_function)

\* Configuration and engine state read by the controller.
\*   sensors, redundant: the sensors registered / registered as redundant
EnvBase ==
    [ etbFunction |-> "DC_Throttle1",
      sensors |-> {"AcceleratorPedalPrimary", "Tps1", "Tps2"},
      redundant |-> {"AcceleratorPedal", "Tps1", "Tps2"},
      rpm |-> 0, etbAutoTune |-> FALSE, analogSensorsShouldWork |-> TRUE,
      disableEtbWhenEngineStopped |-> FALSE, engineMovedRecently |-> FALSE,
      luaDisableEtb |-> FALSE, pauseEtbControl |-> FALSE ]

\* What one update() cycle reads from the sensors, the tables and the PID.
\*   plant: Sensor::get(m_positionSensor); pedal: Sensor::get(AcceleratorPedal)
\*   garbage: what expected<>::Value holds when the value is not valid
\*   raw*: raw primary TPS readings (tenths of a volt) during the calibration sweep
CycleBase ==
    [ plantValid |-> TRUE, plantValue |-> 30, pedalValid |-> TRUE, pedalValue |-> 50,
      tableTarget |-> 50, idlePosition |-> 0, etbIdleThrottleRange |-> 15,
      trim |-> 0, tcEtbDrop |-> 0,
      etbRevLimitStart |-> 0, etbRevLimitRange |-> 0,
      etbMinimumPosition |-> 0, etbMaximumPosition |-> 100,
      wastegatePosition |-> 40,
      feedForward |-> 5, pidOutput |-> 20, garbage |-> 0,
      rawPrimaryMax |-> 40, rawPrimaryMin |-> 10,
      rawSecondaryMax |-> 8, rawSecondaryMin |-> 42 ]

-----------------------------------------------------------------------------
(* EtbController::init and configuration *)

\* an operation that runs no checkStatus() and computes no output
noCycleLog == isOk' = TRUE /\ output' = unexpected

\* EtbController::reset(), on a record of the controller's fields
resetFields(r) ==
    [r EXCEPT !.m_shouldResetPid = TRUE, !.etbTpsErrorCounter = 0,
              !.etbPpsErrorCounter = 0]

\* the fields init() may touch, as they are now
InitFields ==
    [ m_function |-> m_function, m_positionSensor |-> m_positionSensor,
      m_motor |-> m_motor, m_pid |-> m_pid, m_pedalProvider |-> m_pedalProvider,
      m_shouldResetPid |-> m_shouldResetPid, etbErrorCode |-> etbErrorCode,
      etbTpsErrorCounter |-> etbTpsErrorCounter,
      etbPpsErrorCounter |-> etbPpsErrorCounter,
      result |-> FALSE, steps |-> << >> ]

\* the outcome of a precondition check of init()
Passed == [ok |-> TRUE, code |-> "None", error |-> FALSE]
Failed(code, error) == [ok |-> FALSE, code |-> code, error |-> error]

\* init() with the pedal's redundancy left unchecked
initPrecondition_pedalUnchecked(function, hasPedal) ==
    IF ~isEtbModeOf(function) THEN Passed
    ELSE IF ~hasPedal THEN Failed("None", FALSE)
    ELSE IF functionToTpsSensor(function) \notin env.sensors
    THEN Failed("TpsError", FALSE)
    ELSE IF functionToPositionSensor(function) \notin env.redundant
    THEN Failed("Redundancy", TRUE)
    ELSE Passed

\* the preconditions init() checks once the function is stored, first match
\* first: the code it stores on failure and whether it raises firmwareError
initPrecondition(function, hasPedal) ==
    IF ~isEtbModeOf(function) THEN Passed
    ELSE IF ~hasPedal THEN Failed("None", FALSE)
    ELSE IF functionToTpsSensor(function) \notin env.sensors
    THEN Failed("TpsError", FALSE)
    ELSE IF functionToPositionSensor(function) \notin env.redundant
    THEN Failed("Redundancy", TRUE)
    ELSE IF "AcceleratorPedal" \notin env.redundant
    THEN Failed("Redundancy", TRUE)
    ELSE Passed

\* EtbController::init(function, motor, pidParameters, pedalProvider, hasPedal):
\* the controller's fields afterwards, with the result
initFields(function, motor, pidParameters, pedalProvider, hasPedal) ==
    LET cur == InitFields
        fn  == [cur EXCEPT !.m_function = function,
                           !.m_positionSensor = functionToPositionSensor(function)]
        pre == initPrecondition(function, hasPedal)
    IN  IF function = "DC_None"
        THEN [cur EXCEPT !.etbErrorCode = "None"]
        ELSE IF ~pre.ok
        THEN [fn EXCEPT !.etbErrorCode = pre.code,
                        !.steps = IF pre.error THEN << <<"firmwareError", 0>> >>
                                  ELSE << >>]
        ELSE resetFields([fn EXCEPT !.m_motor = motor, !.m_pid = pidParameters,
                                    !.m_pedalProvider = pedalProvider,
                                    !.result = TRUE])

\* store what init() left
applyInit(r0) ==
    \E r \in {r0} :
    /\ m_function' = r.m_function
    /\ m_positionSensor' = r.m_positionSensor
    /\ m_motor' = r.m_motor
    /\ m_pid' = r.m_pid
    /\ m_pedalProvider' = r.m_pedalProvider
    /\ m_shouldResetPid' = r.m_shouldResetPid
    /\ etbErrorCode' = r.etbErrorCode
    /\ etbTpsErrorCounter' = r.etbTpsErrorCounter
    /\ etbPpsErrorCounter' = r.etbPpsErrorCounter
    /\ initResult' = r.result
    /\ steps' = r.steps

\* a direct call of EtbController::init
init(function, hasPedal) ==
    /\ applyInit(initFields(function, "motor", getPidForDcFunction(function),
                            "pedal2tps", hasPedal))
    /\ noCycleLog
    /\ UNCHANGED << hadTpsError, hadPpsError, m_isAutotune, m_isAutocal,
                    m_lastIsPositive, m_autotuneCounter, m_autotuneCurrentParam,
                    directPwmValue, motorVars,
                    etbRevLimitActive, luaVars, env >>

\* doInitElectronicThrottle(), for this controller: a controller whose function
\* is DC_None is skipped
doInitElectronicThrottle ==
    LET func == env.etbFunction
        hasPedal == "AcceleratorPedalPrimary" \in env.sensors
    IN  /\ IF func = "DC_None"
           THEN UNCHANGED << m_function, m_positionSensor, m_motor, m_pid,
                             m_pedalProvider, m_shouldResetPid, etbErrorCode,
                             etbTpsErrorCounter, etbPpsErrorCounter, initResult >>
                /\ steps' = << >>
           ELSE applyInit(initFields(func, "motor", getPidForDcFunction(func),
                                     "pedal2tps", hasPedal))
        /\ noCycleLog
        /\ UNCHANGED << hadTpsError, hadPpsError, m_isAutotune, m_isAutocal,
                        m_lastIsPositive, m_autotuneCounter,
                        m_autotuneCurrentParam, directPwmValue, motorVars,
                    etbRevLimitActive, luaVars, env >>


\* EtbController::onConfigurationChange(previousConfiguration)
\*   pidSame: m_pid.isSame(previousConfiguration)
onConfigurationChange(pidSame) ==
    LET func == env.etbFunction
        hasPedal == "AcceleratorPedalPrimary" \in env.sensors
        flagged == IF m_motor # "null" /\ ~pidSame THEN TRUE ELSE m_shouldResetPid
        r == initFields(func, "motor", getPidForDcFunction(func), "pedal2tps",
                        hasPedal)
    IN  /\ IF func = "DC_None"
           THEN /\ m_shouldResetPid' = flagged
                /\ UNCHANGED << m_function, m_positionSensor, m_motor, m_pid,
                                m_pedalProvider, etbErrorCode, etbTpsErrorCounter,
                                etbPpsErrorCounter, initResult >>
                /\ steps' = << >>
           ELSE applyInit([r EXCEPT !.m_shouldResetPid =
                                       IF r.result THEN TRUE ELSE flagged])
        /\ noCycleLog
        /\ UNCHANGED << hadTpsError, hadPpsError, m_isAutotune, m_isAutocal,
                        m_lastIsPositive, m_autotuneCounter,
                        m_autotuneCurrentParam, directPwmValue, motorVars,
                    etbRevLimitActive, luaVars, env >>

\* etbPidReset(): EtbController::reset()
etbPidReset ==
    /\ m_shouldResetPid' = TRUE
    /\ etbTpsErrorCounter' = 0
    /\ etbPpsErrorCounter' = 0
    /\ steps' = << >>
    /\ UNCHANGED << m_function, m_positionSensor, m_motor, m_pid, m_pedalProvider,
                    etbErrorCode, hadTpsError, hadPpsError, m_isAutotune,
                    m_isAutocal, m_lastIsPositive, m_autotuneCounter,
                    m_autotuneCurrentParam, directPwmValue, motorVars,
                    etbRevLimitActive, luaVars, env,
                    initResult >>
    /\ noCycleLog

\* EtbController::autoCalibrateTps()
autoCalibrateTps ==
    /\ m_isAutocal' = IF m_function \in ETB_FUNCTIONS THEN TRUE ELSE m_isAutocal
    /\ steps' = << >>
    /\ UNCHANGED << m_function, m_positionSensor, m_motor, m_pid, m_pedalProvider,
                    m_shouldResetPid, etbErrorCode, etbTpsErrorCounter,
                    etbPpsErrorCounter, hadTpsError, hadPpsError, m_isAutotune,
                    m_lastIsPositive, m_autotuneCounter, m_autotuneCurrentParam,
                    directPwmValue, motorVars,
                    etbRevLimitActive, luaVars, env, initResult >>
    /\ noCycleLog

\* setThrottleDutyCycle(level): level is NAN or a percentage; setDcMotorDuty
\* hands the duty to the motor at once
setThrottleDutyCycle(level) ==
    /\ IF level.nan
       THEN /\ directPwmValue' = NAN
            /\ steps' = << >>
            /\ UNCHANGED motorDuty
       ELSE /\ directPwmValue' = Num(ETB_PERCENT_TO_DUTY(level.value))
            /\ motorDuty' = ETB_PERCENT_TO_DUTY(level.value)
            /\ steps' = << <<"motor.set", ETB_PERCENT_TO_DUTY(level.value)>> >>
    /\ noCycleLog
    /\ UNCHANGED << ctlVars, motorEnabled, calibrationMode, etbRevLimitActive,
                    luaVars, env, initResult >>

-----------------------------------------------------------------------------
(* The setpoint *)

\* getSanitizedPedal()
getSanitizedPedal(cyc) ==
    clampPercentValue(IF cyc.pedalValid THEN cyc.pedalValue ELSE 0)

\* "> 0.2f" of getLuaAdjustment(), in tenths of a second
LUA_ADJUSTMENT_TIMEOUT == 2

\* an adjustment that never goes stale
getLuaAdjustment_neverStale == luaAdjustment

\* EtbController::getLuaAdjustment()
getLuaAdjustment ==
    IF m_luaAdjustmentTimer > LUA_ADJUSTMENT_TIMEOUT THEN 0 ELSE luaAdjustment

\* the idle position added on top of the table target
targetWithIdlePosition_added(cyc) ==
    cyc.tableTarget
      + (cyc.etbIdleThrottleRange * clampPercentValue(cyc.idlePosition)) \div 100

\* targetWithIdlePosition: the table target compressed into [idle addition, 100]
targetWithIdlePosition(cyc) ==
    LET etbCurrentTarget == cyc.tableTarget  \* m_pedalProvider->getValue(rpm, pedal)
        etbIdlePosition == clampPercentValue(cyc.idlePosition)
        etbIdleAddition == (cyc.etbIdleThrottleRange * etbIdlePosition) \div 100
    IN  interpolateClamped(0, etbIdleAddition, 100, 100, etbCurrentTarget)

\* targetPosition as it reaches the rev limiter: Lua adjustment, trim and
\* traction drop applied, then clamped to a percentage
targetBeforeRevLimit(cyc) ==
    LET t1 == targetWithIdlePosition(cyc) + getLuaAdjustment
        trim == clampF(-10, cyc.trim, 10)
    IN  clampPercentValue(t1 + trim + cyc.tcEtbDrop)

\* a taper applied whether or not a rev limit is configured
revLimitTaper_alwaysApplied(cyc, rpm, targetPosition) ==
    interpolateClamped(cyc.etbRevLimitStart, targetPosition,
                       cyc.etbRevLimitStart + cyc.etbRevLimitRange, 0, rpm)

\* the ETB rev limiter: targetPosition tapered to closed across the range
revLimitTaper(cyc, rpm, targetPosition) ==
    IF cyc.etbRevLimitStart # 0
    THEN interpolateClamped(cyc.etbRevLimitStart, targetPosition,
                            cyc.etbRevLimitStart + cyc.etbRevLimitRange, 0, rpm)
    ELSE targetPosition

\* a window without its lower end
clampToWindow_noMinimum(cyc, targetPosition) ==
    Min2(targetPosition, Min2(cyc.etbMaximumPosition, 100))

\* the last clamp: between etbMinimumPosition and min(etbMaximumPosition, 100)
clampToWindow(cyc, targetPosition) ==
    clampF(cyc.etbMinimumPosition, targetPosition,
           Min2(cyc.etbMaximumPosition, 100))

\* EtbController::getSetpointEtb(), in whole percent
getSetpointEtb(isAutotune, pedalProvider, rpm, cyc) ==
    IF isAutotune THEN Valid(50)
    ELSE IF pedalProvider = "null" THEN unexpected
    ELSE Valid(clampToWindow(cyc, revLimitTaper(cyc, rpm, targetBeforeRevLimit(cyc))))

\* etbRevLimitActive after getSetpointEtb(): written only where the rev
\* limiter runs; "changed by more than 0.1", on whole percents
revLimitActiveAfter(isAutotune, pedalProvider, rpm, cyc) ==
    IF isAutotune \/ pedalProvider = "null" \/ cyc.etbRevLimitStart = 0
    THEN etbRevLimitActive
    ELSE LET before == targetBeforeRevLimit(cyc)
         IN  10 * absF(revLimitTaper(cyc, rpm, before) - before) > 1

\* EtbController::setLuaAdjustment(adjustment)
setLuaAdjustment(adjustment) ==
    /\ luaAdjustment' = adjustment
    /\ m_luaAdjustmentTimer' = 0
    /\ steps' = << >>
    /\ noCycleLog
    /\ UNCHANGED << ctlVars, directPwmValue, motorVars, etbRevLimitActive, env,
                    initResult >>

\* EtbController::getSetpoint()
getSetpoint(func, isAutotune, pedalProvider, rpm, cyc) ==
    CASE func \in ETB_FUNCTIONS -> getSetpointEtb(isAutotune, pedalProvider, rpm, cyc)
      [] func = "DC_IdleValve"  -> Valid(clampPercentValue(cyc.idlePosition))
      [] func = "DC_Wastegate"  -> Valid(clampPercentValue(cyc.wastegatePosition))
      [] OTHER -> unexpected

\* EtbController::getOpenLoop(target)
getOpenLoop(func, cyc) ==
    IF func # "DC_Wastegate" /\ func # "DC_IdleValve"
    THEN Valid(cyc.feedForward)      \* interpolate2d over the bias curve
    ELSE Valid(0)

-----------------------------------------------------------------------------
(* The per-cycle update *)

\* the fields update() may touch, as they are now
CycleFields ==
    [ m_shouldResetPid |-> m_shouldResetPid, etbErrorCode |-> etbErrorCode,
      etbTpsErrorCounter |-> etbTpsErrorCounter,
      etbPpsErrorCounter |-> etbPpsErrorCounter,
      hadTpsError |-> hadTpsError, hadPpsError |-> hadPpsError,
      m_isAutotune |-> m_isAutotune, m_isAutocal |-> m_isAutocal,
      m_lastIsPositive |-> m_lastIsPositive,
      m_autotuneCounter |-> m_autotuneCounter,
      m_autotuneCurrentParam |-> m_autotuneCurrentParam,
      motorEnabled |-> motorEnabled, motorDuty |-> motorDuty,
      calibrationMode |-> calibrationMode,
      etbRevLimitActive |-> etbRevLimitActive,
      steps |-> << >>, isOk |-> TRUE, output |-> unexpected ]

Step(r, name) == [r EXCEPT !.steps = Append(@, <<name, 0>>)]

\* DcMotor::set(duty)
MotorSet(r, duty) ==
    [r EXCEPT !.motorDuty = duty, !.steps = Append(@, <<"motor.set", duty>>)]

\* DcMotor::enable()
MotorEnable(r) ==
    [r EXCEPT !.motorEnabled = TRUE, !.steps = Append(@, <<"motor.enable", 0>>)]

\* DcMotor::disable(reason)
MotorDisable(r) ==
    [r EXCEPT !.motorEnabled = FALSE, !.steps = Append(@, <<"motor.disable", 0>>)]

\* outputChannels.calibrationMode = mode
Publish(r, mode) ==
    [r EXCEPT !.calibrationMode = mode, !.steps = Append(@, <<mode, 0>>)]

\* a fault counter that counts every invalid read
countNewError_everyRead(counter, isError, hadError) ==
    IF isError THEN counter + 1 ELSE counter

\* a fault counter that counts the reads that turn valid again
countNewError_onRecovery(counter, isError, hadError) ==
    IF ~isError /\ hadError THEN counter + 1 ELSE counter

\* a fault counter after one read: only an error that is new is counted
countNewError(counter, isError, hadError) ==
    IF isError /\ ~hadError THEN counter + 1 ELSE counter

\* checkStatus() with the pedal counter looked at before the stopped engine
statusReason_ppsBeforeStopped(tpsCounter, ppsCounter) ==
    IF tpsCounter > ETB_INTERMITTENT_LIMIT THEN "IntermittentTps"
    ELSE IF ppsCounter > ETB_INTERMITTENT_LIMIT THEN "IntermittentPps"
    ELSE IF env.disableEtbWhenEngineStopped /\ ~env.engineMovedRecently
         THEN "EngineStopped"
    ELSE IF env.luaDisableEtb THEN "Lua"
    ELSE "None"

\* the code checkStatus() settles on, first match first
statusReason(tpsCounter, ppsCounter) ==
    IF tpsCounter > ETB_INTERMITTENT_LIMIT THEN "IntermittentTps"
    ELSE IF env.disableEtbWhenEngineStopped /\ ~env.engineMovedRecently
         THEN "EngineStopped"
    ELSE IF ppsCounter > ETB_INTERMITTENT_LIMIT THEN "IntermittentPps"
    ELSE IF env.luaDisableEtb THEN "Lua"
    ELSE "None"

\* a fault counter that an unchecked cycle leaves as it is
counterAfterCheck_kept(checking, counter, isError, hadError) ==
    IF checking THEN countNewError(counter, isError, hadError) ELSE counter

\* a fault counter after one checkStatus(): counted when the sensors are
\* checked, zeroed when autotune runs or the sensors are expected not to work
counterAfterCheck(checking, counter, isError, hadError) ==
    IF checking THEN countNewError(counter, isError, hadError) ELSE 0

\* EtbController::checkStatus()
checkStatus(r0, cyc) ==
    LET r == Step(r0, "checkStatus") IN
    IF ~isEtbMode
    THEN [r EXCEPT !.isOk = TRUE]
    ELSE
      LET autotune == env.rpm = 0 /\ env.etbAutoTune /\ m_function = "DC_Throttle1"
          checking == ~autotune /\ env.analogSensorsShouldWork
          isTpsError == ~cyc.plantValid
          isPpsError == ~cyc.pedalValid
          tpsCounter == counterAfterCheck(checking, r.etbTpsErrorCounter,
                                          isTpsError, r.hadTpsError)
          ppsCounter == counterAfterCheck(checking, r.etbPpsErrorCounter,
                                          isPpsError, r.hadPpsError)
          localReason == statusReason(tpsCounter, ppsCounter)
      IN  [r EXCEPT !.m_isAutotune = autotune,
                    !.etbTpsErrorCounter = tpsCounter,
                    !.etbPpsErrorCounter = ppsCounter,
                    !.hadTpsError = IF checking THEN isTpsError ELSE @,
                    !.hadPpsError = IF checking THEN isPpsError ELSE @,
                    !.etbErrorCode = localReason,
                    !.isOk = (localReason = "None")]

\* setOutput() with the pause flag left out of the condition
setOutputDrives_pauseIgnored(outputValue) ==
    \/ ~isEtbMode
    \/ (allowElectronicThrottle /\ outputValue.valid)

\* the condition under which setOutput() drives the motor
setOutputDrives(outputValue) ==
    \/ ~isEtbMode
    \/ (allowElectronicThrottle /\ outputValue.valid /\ ~env.pauseEtbControl)

\* EtbController::setOutput(outputValue)
setOutput(r0, outputValue, cyc) ==
    LET r == Step(r0, "setOutput") IN
    IF m_motor = "null" THEN r
    ELSE IF setOutputDrives(outputValue)
    THEN MotorSet(MotorEnable(r),
                  ETB_PERCENT_TO_DUTY(IF outputValue.valid THEN outputValue.value
                                      ELSE cyc.garbage))
    ELSE MotorDisable(r)

\* the relay with the cycle counter incremented before it is tested
getClosedLoopAutotune_countedFirst(r0, target, actualThrottlePosition) ==
    LET isPositive == actualThrottlePosition > target
        endOfCycle == ~isPositive /\ r0.m_lastIsPositive
        wrap == r0.m_autotuneCounter + 1 >= 5
        param == IF wrap THEN (r0.m_autotuneCurrentParam + 1) % 3
                 ELSE r0.m_autotuneCurrentParam
        counter == IF wrap THEN 0 ELSE r0.m_autotuneCounter + 1
        r1 == IF endOfCycle
              THEN Publish([r0 EXCEPT !.m_autotuneCounter = counter,
                                      !.m_autotuneCurrentParam = param],
                           <<"EtbKp", "EtbKi", "EtbKd">>[param + 1])
              ELSE r0
    IN  [ r |-> [r1 EXCEPT !.m_lastIsPositive = isPositive],
          value |-> Valid(20 * (IF isPositive THEN -1 ELSE 1)) ]

\* EtbController::getClosedLoopAutotune(target, actualThrottlePosition)
getClosedLoopAutotune(r0, target, actualThrottlePosition) ==
    LET isPositive == actualThrottlePosition > target
        endOfCycle == ~isPositive /\ r0.m_lastIsPositive
        wrap == r0.m_autotuneCounter >= 5
        param == IF wrap THEN (r0.m_autotuneCurrentParam + 1) % 3
                 ELSE r0.m_autotuneCurrentParam
        counter == (IF wrap THEN 0 ELSE r0.m_autotuneCounter) + 1
        r1 == IF endOfCycle
              THEN Publish([r0 EXCEPT !.m_autotuneCounter = counter,
                                      !.m_autotuneCurrentParam = param],
                           <<"EtbKp", "EtbKi", "EtbKd">>[param + 1])
              ELSE r0
    IN  [ r |-> [r1 EXCEPT !.m_lastIsPositive = isPositive],
          value |-> Valid(20 * (IF isPositive THEN -1 ELSE 1)) ]

\* getClosedLoop() resetting the PID without clearing m_shouldResetPid
getClosedLoop_flagKept(r0, target, observation, cyc) ==
    LET r1 == Step(r0, "getClosedLoop")
        r2 == IF r1.m_shouldResetPid THEN Step(r1, "pid.reset") ELSE r1
    IN  IF r2.m_isAutotune
        THEN getClosedLoopAutotune(r2, target, observation)
        ELSE [ r |-> r2, value |-> Valid(cyc.pidOutput) ]

\* EtbController::getClosedLoop(target, observation)
getClosedLoop(r0, target, observation, cyc) ==
    LET r1 == Step(r0, "getClosedLoop")
        r2 == IF r1.m_shouldResetPid
              THEN Step([r1 EXCEPT !.m_shouldResetPid = FALSE], "pid.reset")
              ELSE r1
    IN  IF r2.m_isAutotune
        THEN getClosedLoopAutotune(r2, target, observation)
        ELSE [ r |-> r2, value |-> Valid(cyc.pidOutput) ]

\* ClosedLoopController::update(): getSetpoint, observePlant, getOpenLoop,
\* getClosedLoop, their sum handed to setOutput, valid or not
closedLoopUpdate(r0, cyc) ==
    LET r1 == [Step(r0, "getSetpoint") EXCEPT !.etbRevLimitActive =
                  IF isEtbMode
                  THEN revLimitActiveAfter(r0.m_isAutotune, m_pedalProvider,
                                           env.rpm, cyc)
                  ELSE @]
        setpoint == getSetpoint(m_function, r0.m_isAutotune, m_pedalProvider,
                                env.rpm, cyc)
        r2 == Step(r1, "observePlant")
        r3 == Step(r2, "getOpenLoop")
        openLoop == getOpenLoop(m_function, cyc)
        cl == getClosedLoop(r3, setpoint.value, cyc.plantValue, cyc)
        got == IF ~setpoint.valid THEN [r |-> r1, value |-> unexpected]
               ELSE IF ~cyc.plantValid THEN [r |-> r2, value |-> unexpected]
               ELSE [r |-> cl.r, value |-> Valid(openLoop.value + cl.value.value)]
    IN  [setOutput(got.r, got.value, cyc) EXCEPT !.output = got.value]

\* update() going on to the closed loop whatever checkStatus() returned
baseUpdate_statusIgnored(r0, cyc) ==
    IF m_motor = "null" THEN r0
    ELSE IF ~directPwmValue.nan
    THEN [MotorSet(r0, directPwmValue.value) EXCEPT !.etbErrorCode = "Manual"]
    ELSE
      LET r2 == closedLoopUpdate(checkStatus(r0, cyc), cyc) IN
      IF r2.output.valid THEN Step(r2, "checkOutput") ELSE r2

\* update() looking at the manual override only after checkStatus()
baseUpdate_statusBeforeManual(r0, cyc) ==
    IF m_motor = "null" THEN r0
    ELSE LET r1 == checkStatus(r0, cyc) IN
         IF ~directPwmValue.nan
         THEN [MotorSet(r1, directPwmValue.value) EXCEPT !.etbErrorCode = "Manual"]
         ELSE IF ~r1.isOk
         THEN MotorDisable(r1)
         ELSE LET r2 == closedLoopUpdate(r1, cyc) IN
              IF r2.output.valid THEN Step(r2, "checkOutput") ELSE r2

\* EtbController::update()
baseUpdate(r0, cyc) ==
    IF m_motor = "null" THEN r0
    ELSE IF ~directPwmValue.nan
    THEN [MotorSet(r0, directPwmValue.value) EXCEPT !.etbErrorCode = "Manual"]
    ELSE
      LET r1 == checkStatus(r0, cyc) IN
      IF ~r1.isOk
      THEN MotorDisable(r1)
      ELSE LET r2 == closedLoopUpdate(r1, cyc) IN
           IF r2.output.valid THEN Step(r2, "checkOutput") ELSE r2

\* Sensor::getRaw(sensor), the reading in tenths of a volt
GetRaw(r, sensor, reading) ==
    [r EXCEPT !.steps = Append(@, <<sensor, reading>>)]

\* outputChannels.calibrationMode = mode; outputChannels.calibrationValue = the
\* reading converted to ADC counts
PublishReading(r, mode, reading) ==
    [r EXCEPT !.calibrationMode = mode, !.steps = Append(@, <<mode, reading>>)]

\* a sweep that leaves the motor driving closed
sweepMotor_leftEnabled(r, cyc) ==
    LET open   == MotorEnable(MotorSet(r, 50))
        maxed  == GetRaw(GetRaw(open, "primaryMax", cyc.rawPrimaryMax),
                         "secondaryMax", cyc.rawSecondaryMax)
        closed == MotorSet(MotorSet(maxed, 0), -50)
    IN  GetRaw(GetRaw(closed, "primaryMin", cyc.rawPrimaryMin),
               "secondaryMin", cyc.rawSecondaryMin)

\* the throttle driven open, held, released and driven closed, the raw
\* readings taken at both ends
sweepMotor(r, cyc) ==
    LET open   == MotorEnable(MotorSet(r, 50))
        maxed  == GetRaw(GetRaw(open, "primaryMax", cyc.rawPrimaryMax),
                         "secondaryMax", cyc.rawSecondaryMax)
        closed == MotorSet(MotorSet(maxed, 0), -50)
        mined  == GetRaw(GetRaw(closed, "primaryMin", cyc.rawPrimaryMin),
                         "secondaryMin", cyc.rawSecondaryMin)
    IN  MotorDisable(mined)

\* a sweep that publishes whatever it read
sweepMoved_unchecked(cyc) == TRUE

\* the sweep moved the throttle: absF(primaryMax - primaryMin) >= 0.5 V
sweepMoved(cyc) == ~(absF(cyc.rawPrimaryMax - cyc.rawPrimaryMin) < 5)

\* the learned values written out one after another, then TsCalMode::None
publishSweep(r, cyc) ==
    LET priMax == PublishReading(r, functionToCalModePriMax(m_function),
                                 cyc.rawPrimaryMax)
        priMin == PublishReading(priMax, functionToCalModePriMin(m_function),
                                 cyc.rawPrimaryMin)
        secMax == PublishReading(priMin, functionToCalModeSecMax(m_function),
                                 cyc.rawSecondaryMax)
        secMin == PublishReading(secMax, functionToCalModeSecMin(m_function),
                                 cyc.rawSecondaryMin)
    IN  Publish(secMin, "None")

\* the calibration sweep of EtbImpl::update(), taken when m_isAutocal is set
autocalSweep(r0, cyc) ==
    LET off == [r0 EXCEPT !.m_isAutocal = FALSE] IN
    IF env.rpm > 0 THEN off
    ELSE IF m_motor = "null" THEN off
    ELSE
      LET swept == sweepMotor(off, cyc)
      IN  IF ~sweepMoved(cyc)
          THEN Step(swept, "firmwareError")
          ELSE publishSweep(swept, cyc)

\* an update() that goes on to normal control after the sweep
updateFields_controlAfterSweep(cyc) ==
    IF m_isAutocal THEN baseUpdate(autocalSweep(CycleFields, cyc), cyc)
    ELSE baseUpdate(CycleFields, cyc)

\* EtbImpl::update(): everything one cycle leaves behind
updateFields(cyc) ==
    IF m_isAutocal THEN autocalSweep(CycleFields, cyc)
    ELSE baseUpdate(CycleFields, cyc)

\* EtbImpl::update()
update(cyc) ==
    \E r \in {updateFields(cyc)} :
    /\ m_shouldResetPid' = r.m_shouldResetPid
    /\ etbErrorCode' = r.etbErrorCode
    /\ etbTpsErrorCounter' = r.etbTpsErrorCounter
    /\ etbPpsErrorCounter' = r.etbPpsErrorCounter
    /\ hadTpsError' = r.hadTpsError
    /\ hadPpsError' = r.hadPpsError
    /\ m_isAutotune' = r.m_isAutotune
    /\ m_isAutocal' = r.m_isAutocal
    /\ m_lastIsPositive' = r.m_lastIsPositive
    /\ m_autotuneCounter' = r.m_autotuneCounter
    /\ m_autotuneCurrentParam' = r.m_autotuneCurrentParam
    /\ motorEnabled' = r.motorEnabled
    /\ motorDuty' = r.motorDuty
    /\ calibrationMode' = r.calibrationMode
    /\ etbRevLimitActive' = r.etbRevLimitActive
    /\ steps' = r.steps
    /\ isOk' = r.isOk
    /\ output' = r.output
    /\ UNCHANGED << m_function, m_positionSensor, m_motor, m_pid, m_pedalProvider,
                    directPwmValue, luaVars, env, initResult >>

\* the controller, its motor and the channel as constructed
EtbInit ==
    /\ m_function = "DC_None"
    /\ m_positionSensor = "Invalid"
    /\ m_motor = "null"
    /\ m_pid = "none"
    /\ m_pedalProvider = "null"
    /\ m_shouldResetPid = FALSE
    /\ etbErrorCode = "None"
    /\ etbTpsErrorCounter = 0
    /\ etbPpsErrorCounter = 0
    /\ hadTpsError = FALSE
    /\ hadPpsError = FALSE
    /\ m_isAutotune = FALSE
    /\ m_isAutocal = FALSE
    /\ m_lastIsPositive = FALSE
    /\ m_autotuneCounter = 0
    /\ m_autotuneCurrentParam = 0
    /\ directPwmValue = NAN
    /\ motorEnabled = FALSE
    /\ motorDuty = 0
    /\ calibrationMode = "None"
    /\ etbRevLimitActive = FALSE
    /\ luaAdjustment = 0
    /\ m_luaAdjustmentTimer = MaxLuaAge
    /\ env = EnvBase
    /\ steps = << >>
    /\ isOk = TRUE
    /\ output = unexpected
    /\ initResult = FALSE

-----------------------------------------------------------------------------
(* The start/stop button: slowStartStopButtonCallback *)

\* What one call of the callback reads.
\*   pin: startStopButtonDebounce.readPinEvent()
\*   isStopped, isRunning: engine->rpmCalculator.isStopped() / isRunning()
\*   nowNt: getTimeNowNt(), in seconds
\*   startCrankingDuration: engineConfiguration->startCrankingDuration
ButtonBase ==
    [ pin |-> FALSE, isStopped |-> TRUE, isRunning |-> FALSE, nowNt |-> 1,
      startCrankingDuration |-> 2 ]

\* the fields the callback may touch, as they are now, and an empty log
ButtonFields ==
    [ startStopState |-> startStopState,
      startStopStateToggleCounter |-> startStopStateToggleCounter,
      startStopStateLastPushTime |-> startStopStateLastPushTime,
      starterControl |-> starterControl,
      steps |-> << >> ]

\* enginePins.starterControl.getAndSet(value)
starterGetAndSet(r, value) ==
    [r EXCEPT !.starterControl = value,
              !.steps = Append(@, <<"starter.set", IF value THEN 1 ELSE 0>>)]

\* a toggle handler that records the push time of every press with the
\* engine stopped
onStartStopButtonToggle_alwaysRecords(r0, in) ==
    LET r1 == Step([r0 EXCEPT !.startStopStateToggleCounter = @ + 1], "toggle")
    IN  IF in.isStopped
        THEN [starterGetAndSet(r1, TRUE) EXCEPT
                    !.startStopStateLastPushTime = in.nowNt,
                    !.steps = Append(@, <<"pushTime", in.nowNt>>)]
        ELSE IF in.isRunning
        THEN Step(r1, "doScheduleStopEngine")
        ELSE r1

\* onStartStopButtonToggle()
onStartStopButtonToggle(r0, in) ==
    LET r1 == Step([r0 EXCEPT !.startStopStateToggleCounter = @ + 1], "toggle")
    IN  IF in.isStopped
        THEN LET wasStarterEngaged == r1.starterControl
                 r2 == starterGetAndSet(r1, TRUE)
             IN  IF ~wasStarterEngaged
                 THEN [r2 EXCEPT !.startStopStateLastPushTime = in.nowNt,
                                 !.steps = Append(@, <<"pushTime", in.nowNt>>)]
                 ELSE r2
        ELSE IF in.isRunning
        THEN Step(r1, "doScheduleStopEngine")
        ELSE r1

\* the starter switched off, and the push forgotten if it was engaged
disengageStarter(r) ==
    LET wasStarterEngaged == r.starterControl
        r1 == starterGetAndSet(r, FALSE)
    IN  IF wasStarterEngaged
        THEN [r1 EXCEPT !.startStopStateLastPushTime = 0,
                        !.steps = Append(@, <<"pushTime", 0>>)]
        ELSE r1

\* the edge test with the stored state left out: the handler runs in every
\* call that reads the button pressed
buttonToggled_everyRead(r, in) == in.pin

\* "we are here on transition from 0 to 1"
buttonToggled(r, in) == in.pin /\ ~r.startStopState

\* the end of cranking with the timeout test at "not less than"
crankingTimedOut_atDuration(r, in) ==
    in.nowNt - r.startStopStateLastPushTime >= in.startCrankingDuration

\* getTimeNowNt() - startStopStateLastPushTime >
\*     NT_PER_SECOND * startCrankingDuration
crankingTimedOut(r, in) ==
    in.nowNt - r.startStopStateLastPushTime > in.startCrankingDuration

\* slowStartStopButtonCallback(): the fields afterwards, with the log
slowStartStopButtonCallbackFields(r0, in) ==
    LET r1 == IF buttonToggled(r0, in) THEN onStartStopButtonToggle(r0, in)
              ELSE r0
        r2 == [r1 EXCEPT !.startStopState = in.pin]
    IN  IF r2.startStopStateLastPushTime = 0
        THEN r2
        ELSE LET r3 == IF in.isRunning THEN disengageStarter(r2) ELSE r2
             IN  IF crankingTimedOut(r3, in) THEN disengageStarter(r3) ELSE r3

\* slowStartStopButtonCallback()
slowStartStopButtonCallback(in) ==
    \E r \in {slowStartStopButtonCallbackFields(ButtonFields, in)} :
        /\ startStopState' = r.startStopState
        /\ startStopStateToggleCounter' = r.startStopStateToggleCounter
        /\ startStopStateLastPushTime' = r.startStopStateLastPushTime
        /\ starterControl' = r.starterControl
        /\ steps' = r.steps

\* the button, the starter output and the clock after start-up
ButtonInit ==
    /\ startStopState = FALSE
    /\ startStopStateToggleCounter = 0
    /\ startStopStateLastPushTime = 0
    /\ starterControl = FALSE
    /\ now = 1

-----------------------------------------------------------------------------
(* Specification of the limp manager alone *)

\* limits handed to setFaultRevLimit(int)
FaultLimits == {-1, 0, 1500}

\* the ticks explored: the base tick with single conditions varied
LimpInputs ==
    {[LimpBase EXCEPT !.rpm = r, !.dt = d] : r \in {0, 1000, 6800, 7500}, d \in {0, 1}}
    \cup {[LimpBase EXCEPT !.isInjectionEnabled = a, !.isIgnitionEnabled = b]
             : a \in BOOL, b \in BOOL}
    \cup {[LimpBase EXCEPT !.luaFuelCut = a, !.luaIgnCut = b] : a \in BOOL, b \in BOOL}
    \cup {[LimpBase EXCEPT !.directSelfStimulation = TRUE],
          [LimpBase EXCEPT !.gdiCommsLost = TRUE],
          [LimpBase EXCEPT !.acrCut = TRUE],
          [LimpBase EXCEPT !.lambdaCut = TRUE],
          [LimpBase EXCEPT !.noPhaseSync = TRUE],
          [LimpBase EXCEPT !.isEngineStop = TRUE],
          [LimpBase EXCEPT !.launchFuelCut = TRUE],
          [LimpBase EXCEPT !.launchSparkCut = TRUE],
          [LimpBase EXCEPT !.rpm = 7500, !.cutFuelOnHardLimit = FALSE],
          [LimpBase EXCEPT !.rpm = 7500, !.cutSparkOnHardLimit = FALSE],
          [LimpBase EXCEPT !.isRunning = FALSE, !.rpm = 0,
                           !.isCylinderCleanupEnabled = TRUE,
                           !.driverThrottleIntent = 95]}
    \cup {[LimpBase EXCEPT !.boostCutPressure = 200, !.map = m] : m \in {100, 190, 250}}
    \cup {[LimpBase EXCEPT !.minOilPressureAfterStart = 200, !.isTimedOut = t,
                           !.oilp = o] : t \in BOOL, o \in {50, 300}}
    \cup {[LimpBase EXCEPT !.enableOilPressureProtect = TRUE, !.oilp = 50]}
    \cup {[LimpBase EXCEPT !.injDutyCycle = d] : d \in {50, 85, 97}}

LimpUpdateState ==
    \E in \in LimpInputs :
        /\ updateState(in)
        /\ lastOp' = <<"updateState", in.rpm>>
        /\ UNCHANGED << etbVars, runVars, buttonVars, fatalErrorCalled >>

LimpSetFaultRevLimit ==
    \E limit \in FaultLimits :
        /\ setFaultRevLimit(limit)
        /\ lastOp' = <<"setFaultRevLimit", limit>>
        /\ UNCHANGED << etbVars, runVars, buttonVars, fatalErrorCalled >>

LimpOnIgnitionStateChanged ==
    \E ignitionOn \in BOOL :
        /\ onIgnitionStateChanged(ignitionOn)
        /\ lastOp' = <<"onIgnitionStateChanged", 0>>
        /\ UNCHANGED << etbVars, runVars, buttonVars, fatalErrorCalled >>

LimpFatalError ==
    /\ fatalError
    /\ fatalErrorCalled' = TRUE
    /\ lastOp' = <<"fatalError", 0>>
    /\ UNCHANGED << etbVars, runVars, buttonVars >>

Init ==
    /\ LimpInit
    /\ EtbInit
    /\ lastOp = <<"construct", 0>>
    /\ fatalErrorCalled = FALSE
    /\ tpsInvalidRun = 0
    /\ tpsFaultEvents = 0
    /\ prevPlantValid = TRUE
    /\ prevPedalValid = TRUE
    /\ dutyOverFor = 0
    /\ sinceStart = 0
    /\ sawPressure = FALSE
    /\ fallingEdges = 0
    /\ ButtonInit

NextLimp ==
    \/ LimpUpdateState
    \/ LimpSetFaultRevLimit
    \/ LimpOnIgnitionStateChanged
    \/ LimpFatalError

SpecLimp == Init /\ [][NextLimp]_vars

-----------------------------------------------------------------------------
(* Claims about the limp manager *)

\* C1: once fatalError() has been called, whatever updateState,
\* setFaultRevLimit, onIgnitionStateChanged and fatalError calls follow,
\* allowElectronicThrottle() and allowTriggerInput() return false and
\* allowInjection() and allowIgnition() return denied.
C1_FatalIsPermanent ==
    fatalErrorCalled =>
        /\ ~allowElectronicThrottle
        /\ ~allowTriggerInput
        /\ ~allowInjection.value
        /\ ~allowIgnition.value

\* a tick after the fatal error, with the ignition on, in which no condition
\* of the tick itself vetoes fuel or spark
C1_Witness ==
    /\ fatalErrorCalled
    /\ lastOp[1] = "updateState"
    /\ m_ignitionOn
    /\ m_transientAllowInjection.value
    /\ m_transientAllowIgnition.value
    /\ ~allowInjection.value

\* C9: the fault RPM ceiling is the minimum of its initial value and of all
\* the limits passed so far (by setFaultRevLimit and by fatalError), so it
\* never increases.
C9_FaultRevLimitIsMinimum ==
    m_faultRevLimit = SetMin({INT32_MAX} \cup limitsPassed)

\* a limit above the current ceiling was just passed and did not raise it
C9_Witness ==
    /\ lastOp[1] = "setFaultRevLimit"
    /\ lastOp[2] > m_faultRevLimit
    /\ Cardinality(limitsPassed) >= 2

-----------------------------------------------------------------------------
(* Steps shared by the specifications of the throttle controller *)

\* the configuration or the engine state changes
EnvChange(envs) ==
    \E e \in envs :
        /\ env' = e
        /\ lastOp' = <<"env", 0>>
        /\ steps' = << >>
        /\ noCycleLog
        /\ UNCHANGED << limpVars, ctlVars, directPwmValue, motorVars,
                        etbRevLimitActive, luaVars, initResult,
                        runVars, buttonVars, fatalErrorCalled >>

\* a call of init()
InitCall(functions, pedals) ==
    \E function \in functions, hasPedal \in pedals :
        /\ init(function, hasPedal)
        /\ lastOp' = <<"init", [function |-> function, hasPedal |-> hasPedal]>>
        /\ UNCHANGED << limpVars, runVars, buttonVars, fatalErrorCalled >>

\* what the configured initialisation hands to init(), if it calls it
ConfiguredInit ==
    IF env.etbFunction = "DC_None"
    THEN <<"noInit", 0>>
    ELSE <<"init", [function |-> env.etbFunction,
                    hasPedal |-> "AcceleratorPedalPrimary" \in env.sensors]>>

\* the configuration change callback
ConfigurationChange ==
    \E pidSame \in BOOL :
        /\ onConfigurationChange(pidSame)
        /\ lastOp' = ConfiguredInit
        /\ UNCHANGED << limpVars, runVars, buttonVars, fatalErrorCalled >>

\* one pass of the periodic task over this controller; maxFaults caps the
\* fault counters explored
Update(cycles, maxFaults) ==
    \E cyc \in cycles :
        /\ update(cyc)
        /\ etbTpsErrorCounter' <= maxFaults
        /\ etbPpsErrorCounter' <= maxFaults
        /\ lastOp' = <<"update", 0>>
        /\ UNCHANGED << limpVars, runVars, buttonVars, fatalErrorCalled >>

Autocal ==
    /\ autoCalibrateTps
    /\ lastOp' = <<"etbAutocal", 0>>
    /\ UNCHANGED << limpVars, runVars, buttonVars, fatalErrorCalled >>

SetThrottleDutyCycle(levels) ==
    \E level \in levels :
        /\ setThrottleDutyCycle(level)
        /\ lastOp' = <<"setThrottleDutyCycle", level>>
        /\ UNCHANGED << limpVars, runVars, buttonVars, fatalErrorCalled >>

\* what the last operation did, by name
StepNames == {steps[i][1] : i \in DOMAIN steps}

\* the last operation enabled the motor and handed it a duty
Drove == "motor.enable" \in StepNames /\ "motor.set" \in StepNames

\* the last operation touched the motor only to disable it
OnlyDisabled ==
    /\ "motor.disable" \in StepNames
    /\ "motor.enable" \notin StepNames
    /\ "motor.set" \notin StepNames

-----------------------------------------------------------------------------
(* Specification of an armed controller: the periodic update, calibration   *)
(* requests, the manual duty override and a fatal error                     *)

\* fault events explored per sensor in SpecEtb and SpecInit
MaxEtbFaults == 1

EtbEnvs ==
    {EnvBase,
     [EnvBase EXCEPT !.rpm = 1000, !.engineMovedRecently = TRUE],
     [EnvBase EXCEPT !.luaDisableEtb = TRUE],
     [EnvBase EXCEPT !.pauseEtbControl = TRUE]}

EtbCycles ==
    {CycleBase,
     [CycleBase EXCEPT !.plantValid = FALSE, !.garbage = 120],
     [CycleBase EXCEPT !.rawPrimaryMax = 12]}

\* levels handed to setThrottleDutyCycle
DutyLevels == {NAN, Num(120), Num(30), Num(-150)}

NextEtb ==
    \/ EnvChange(EtbEnvs)
    \/ InitCall(DC_FUNCTIONS \ {"DC_None"}, {TRUE})
    \/ Update(EtbCycles, MaxEtbFaults)
    \/ Autocal
    \/ SetThrottleDutyCycle(DutyLevels)
    \/ LimpFatalError

SpecEtb == Init /\ [][NextEtb]_vars

\* C2: an update() of a Throttle1/Throttle2 controller with no manual duty
\* override, in a cycle where the limp manager denies the throttle, neither
\* enables the motor nor hands it a duty, and leaves the motor disabled; the
\* calibration sweep is part of update().
C2_NoDriveWhenDenied ==
    ( /\ lastOp[1] = "update"
      /\ isEtbMode
      /\ directPwmValue.nan
      /\ ~allowElectronicThrottle )
    => /\ "motor.enable" \notin StepNames
       /\ "motor.set" \notin StepNames
       /\ (m_motor # "null" => ~motorEnabled)

\* C3: when update() reaches setOutput on a controller that has a motor, the
\* motor is enabled and handed a duty if and only if the function is not a
\* throttle, or the limp manager permits the throttle, the output is valid and
\* pauseEtbControl is clear; otherwise the motor is disabled and no duty is set.
C3_SetOutputDrivesIff ==
    ( /\ lastOp[1] = "update"
      /\ "setOutput" \in StepNames
      /\ m_motor # "null" )
    => IF \/ m_function \notin {"DC_Throttle1", "DC_Throttle2"}
          \/ (allowElectronicThrottle /\ output.valid /\ ~env.pauseEtbControl)
       THEN Drove /\ "motor.disable" \notin StepNames /\ motorEnabled
       ELSE OnlyDisabled /\ ~motorEnabled

\* setOutput refused a valid output of a permitted throttle because of the pause
C3_Witness ==
    /\ lastOp[1] = "update"
    /\ "setOutput" \in StepNames
    /\ m_function = "DC_Throttle1"
    /\ allowElectronicThrottle
    /\ output.valid
    /\ env.pauseEtbControl
    /\ OnlyDisabled

-----------------------------------------------------------------------------
(* Specification of a controller being configured and re-configured *)

InitEnvs ==
    {[EnvBase EXCEPT !.etbFunction = f] : f \in {"DC_Throttle1", "DC_None", "DC_IdleValve"}}
    \cup {[EnvBase EXCEPT !.sensors = {"Tps1", "Tps2"}],
          [EnvBase EXCEPT !.sensors = {"AcceleratorPedalPrimary", "Tps1"}],
          [EnvBase EXCEPT !.redundant = {"AcceleratorPedal", "Tps2"}],
          [EnvBase EXCEPT !.redundant = {"Tps1", "Tps2"}]}

InitCycles ==
    {CycleBase,
     [CycleBase EXCEPT !.pedalValid = FALSE],
     [CycleBase EXCEPT !.plantValid = FALSE]}

NextInit ==
    \/ EnvChange(InitEnvs)
    \/ InitCall(DC_FUNCTIONS, BOOL)
    \/ ConfigurationChange
    \/ Update(InitCycles, MaxEtbFaults)

SpecInit == Init /\ [][NextInit]_vars

\* C5: an init() that returns false leaves function, position sensor, motor,
\* PID and pedal provider as they were, and no update() that follows a failed
\* init() drives the motor, also when an earlier init() had armed the
\* controller.
C5_FailedInitLeavesNothing ==
    [][ /\ (lastOp'[1] = "init" /\ ~initResult')
            => /\ m_function' = m_function
               /\ m_positionSensor' = m_positionSensor
               /\ m_motor' = m_motor
               /\ m_pid' = m_pid
               /\ m_pedalProvider' = m_pedalProvider
        /\ (lastOp'[1] = "update" /\ ~initResult)
            => ("motor.enable" \notin StepNames' /\ "motor.set" \notin StepNames')
      ]_vars

\* C6: init() fails exactly for function None (code None), a throttle without
\* pedal (code None), a throttle whose TPS sensor is not registered (code
\* TpsError), a throttle whose position sensor or accelerator pedal is not
\* redundant (code Redundancy), the first of these that applies giving the
\* code; for IdleValve and Wastegate it returns true.
C6_InitFailureCases ==
    lastOp[1] = "init" =>
      LET function == lastOp[2].function
          hasPedal == lastOp[2].hasPedal
          throttle == function \in {"DC_Throttle1", "DC_Throttle2"}
          tps == IF function = "DC_Throttle1" THEN "Tps1" ELSE "Tps2"
          code == IF function = "DC_None" THEN "None"
                  ELSE IF throttle /\ ~hasPedal THEN "None"
                  ELSE IF throttle /\ tps \notin env.sensors THEN "TpsError"
                  ELSE IF throttle /\ (tps \notin env.redundant
                                       \/ "AcceleratorPedal" \notin env.redundant)
                       THEN "Redundancy"
                  ELSE "ok"
      IN  /\ initResult <=> code = "ok"
          /\ ~initResult => etbErrorCode = code
          /\ function \in {"DC_IdleValve", "DC_Wastegate"} => initResult

\* init() refused a throttle whose accelerator pedal is not redundant
C6_Witness ==
    /\ lastOp[1] = "init"
    /\ lastOp[2].function = "DC_Throttle1"
    /\ lastOp[2].hasPedal
    /\ "Tps1" \in env.sensors
    /\ "Tps1" \in env.redundant
    /\ "AcceleratorPedal" \notin env.redundant
    /\ ~initResult
    /\ etbErrorCode = "Redundancy"

-----------------------------------------------------------------------------
(* Specification of an armed controller whose sensors fail again and again, *)
(* with the engine stopped or turning and the script's disable flag         *)

\* fault events explored per sensor in SpecFault and SpecTpsRun
MaxFaultCount == 51

FaultEnvs ==
    {[EnvBase EXCEPT !.disableEtbWhenEngineStopped = d, !.luaDisableEtb = l] :
        d \in BOOL, l \in BOOL}
    \cup {[EnvBase EXCEPT !.disableEtbWhenEngineStopped = TRUE,
                          !.engineMovedRecently = TRUE, !.rpm = 1000]}

FaultCycles ==
    {CycleBase,
     [CycleBase EXCEPT !.plantValid = FALSE],
     [CycleBase EXCEPT !.pedalValid = FALSE]}

NextFault ==
    \/ EnvChange(FaultEnvs)
    \/ InitCall({"DC_Throttle1", "DC_IdleValve"}, {TRUE})
    \/ Update(FaultCycles, MaxFaultCount)

SpecFault == Init /\ [][NextFault]_vars

\* C7: checkStatus() on a throttle stores exactly one code, the first that
\* applies of IntermittentTps (TPS fault counter above 50), EngineStopped
\* (disableEtbWhenEngineStopped set and the engine has not moved recently),
\* IntermittentPps (pedal fault counter above 50), Lua (luaDisableEtb), and
\* None when none applies.
C7_StatusPriority ==
    ( /\ lastOp[1] = "update"
      /\ "checkStatus" \in StepNames
      /\ m_function \in {"DC_Throttle1", "DC_Throttle2"} )
    => etbErrorCode =
         IF etbTpsErrorCounter > 50 THEN "IntermittentTps"
         ELSE IF env.disableEtbWhenEngineStopped /\ ~env.engineMovedRecently
              THEN "EngineStopped"
         ELSE IF etbPpsErrorCounter > 50 THEN "IntermittentPps"
         ELSE IF env.luaDisableEtb THEN "Lua"
         ELSE "None"

\* the stopped engine wins over the pedal counter and the script's flag
C7_Witness ==
    /\ lastOp[1] = "update"
    /\ "checkStatus" \in StepNames
    /\ m_function = "DC_Throttle1"
    /\ etbTpsErrorCounter <= 50
    /\ env.disableEtbWhenEngineStopped /\ ~env.engineMovedRecently
    /\ etbPpsErrorCounter > 50
    /\ env.luaDisableEtb
    /\ etbErrorCode = "EngineStopped"

\* C8: in an update() that reaches checkStatus(), the status is ok exactly
\* when the function is not a throttle or the stored code is None; when it is
\* not ok the cycle is checkStatus followed by motor disable and nothing else;
\* when it is ok the cycle goes on to setOutput, after which only the motor
\* and the output check are touched.
C8_StatusShortCircuits ==
    (lastOp[1] = "update" /\ "checkStatus" \in StepNames)
    => /\ isOk <=> ( \/ m_function \notin {"DC_Throttle1", "DC_Throttle2"}
                     \/ etbErrorCode = "None" )
       /\ ~isOk => /\ steps = << <<"checkStatus", 0>>, <<"motor.disable", 0>> >>
                   /\ ~motorEnabled
       /\ isOk => \E i \in DOMAIN steps :
                     /\ steps[i][1] = "setOutput"
                     /\ \A j \in DOMAIN steps :
                           j > i => steps[j][1] \in {"motor.enable", "motor.set",
                                                      "motor.disable", "checkOutput"}

\* a failed status cut the cycle short and disabled the motor
C8_Witness ==
    /\ lastOp[1] = "update"
    /\ m_function = "DC_Throttle1"
    /\ ~isOk
    /\ etbErrorCode = "Lua"
    /\ steps = << <<"checkStatus", 0>>, <<"motor.disable", 0>> >>
    /\ ~motorEnabled

-----------------------------------------------------------------------------
(* Specification of an armed first throttle whose position sensor comes and *)
(* goes: sensor checking active, autotune off, pedal valid                  *)

\* consecutive invalid reads counted in SpecTpsRun
MaxRun == 51

RunCycles == {CycleBase, [CycleBase EXCEPT !.plantValid = FALSE]}

\* init() of the first throttle: reset() zeroes the fault counters
RunInit ==
    /\ init("DC_Throttle1", TRUE)
    /\ lastOp' = <<"init", [function |-> "DC_Throttle1", hasPedal |-> TRUE]>>
    /\ tpsInvalidRun' = 0
    /\ tpsFaultEvents' = 0
    /\ UNCHANGED << buttonVars, limpVars, prevPlantValid, prevPedalValid, dutyOverFor,
                    sinceStart, sawPressure,
                    fallingEdges,
                    fatalErrorCalled >>

\* one update() of the armed throttle.
\*   tpsInvalidRun: invalid reads in a row since the fault counters were zero
\*   tpsFaultEvents: reads that turned from valid to invalid since init()
RunUpdate ==
    \E cyc \in RunCycles :
        /\ m_motor # "null"
        /\ update(cyc)
        /\ etbTpsErrorCounter' <= MaxFaultCount
        /\ lastOp' = <<"update", 0>>
        /\ tpsInvalidRun' =
              IF cyc.plantValid THEN 0
              ELSE IF tpsInvalidRun > 0 THEN Min2(tpsInvalidRun + 1, MaxRun)
              ELSE IF etbTpsErrorCounter = 0 /\ etbPpsErrorCounter = 0 THEN 1
              ELSE 0
        /\ tpsFaultEvents' =
              IF ~cyc.plantValid /\ prevPlantValid
              THEN Min2(tpsFaultEvents + 1, MaxFaultCount)
              ELSE tpsFaultEvents
        /\ prevPlantValid' = cyc.plantValid
        /\ UNCHANGED << buttonVars, limpVars, prevPedalValid, dutyOverFor, sinceStart,
                        sawPressure,
                        fallingEdges,
                        fatalErrorCalled >>

NextTpsRun == RunInit \/ RunUpdate

SpecTpsRun == Init /\ [][NextTpsRun]_vars

\* C4 as stated: after 51 invalid position reads in a row, starting from fault
\* counters at zero, checkStatus() is false, the code is IntermittentTps and
\* the motor is disabled.
C4_Original ==
    (lastOp[1] = "update" /\ tpsInvalidRun >= 51)
    => /\ ~isOk
       /\ etbErrorCode = "IntermittentTps"
       /\ ~motorEnabled

\* C4: the TPS fault counter counts reads that turn from valid to invalid. In
\* the cycle of the 51st such event since init(), and in every cycle after it,
\* checkStatus() is false, the code is IntermittentTps and the motor is
\* disabled; up to 50 events the status is ok with code None; invalid reads in
\* a row are one event, so 51 of them from counters at zero leave the status
\* ok and the motor disabled by setOutput for want of a valid output.
C4_IntermittentOnFaultEvents ==
    lastOp[1] = "update"
    => /\ tpsFaultEvents >= 51
            => (~isOk /\ etbErrorCode = "IntermittentTps"
                /\ OnlyDisabled /\ ~motorEnabled)
       /\ tpsFaultEvents <= 50 => (isOk /\ etbErrorCode = "None")
       /\ tpsInvalidRun >= 51
            => (tpsFaultEvents <= 1 /\ isOk /\ OnlyDisabled /\ ~motorEnabled)

\* the 51st fault event tripped the status
C4_Witness ==
    /\ lastOp[1] = "update"
    /\ tpsFaultEvents = 51
    /\ ~prevPlantValid
    /\ tpsInvalidRun = 0
    /\ etbErrorCode = "IntermittentTps"
    /\ ~motorEnabled

-----------------------------------------------------------------------------
(* Specification of the limp manager's cuts with hysteresis: ticks that vary *)
(* the RPM around the hard limit and the injector duty around its thresholds *)

CutInputs ==
    {[LimpBase EXCEPT !.rpm = r, !.injDutyCycle = d, !.dt = t] :
        r \in {6000, 6500, 6800, 7000, 7500}, d \in {10, 20, 50, 85, 97},
        t \in {0, 1}}
    \cup {[LimpBase EXCEPT !.rpm = r, !.rpmHardLimitHyst = 0] : r \in {6800, 7000, 7500}}
    \cup {[LimpBase EXCEPT !.injDutyCycle = 18, !.maxInjectorDutyInstant = 15]}

\* one tick of the fast callback, the whole input kept as the argument
CutUpdateState ==
    \E in \in CutInputs :
        /\ updateState(in)
        /\ lastOp' = <<"updateState", in>>
        /\ dutyOverFor' = IF in.injDutyCycle > in.maxInjectorDutySustained
                          THEN Min2(dutyOverFor + in.dt, MaxAge)
                          ELSE 0
        /\ UNCHANGED << buttonVars, etbVars, tpsInvalidRun, tpsFaultEvents, prevPlantValid, prevPedalValid,
                        sinceStart, sawPressure, fallingEdges,
                        fatalErrorCalled >>

NextCut ==
    \/ CutUpdateState
    \/ LimpOnIgnitionStateChanged

SpecCut == Init /\ [][NextCut]_vars

\* C11: a tick with rpm above the hard limit engages the rev-limit cut; a tick
\* with rpm below resumeRpm = limit - rpmHardLimitHyst releases it; a tick with
\* rpm in [resumeRpm, limit], the limit itself included, leaves it as it was,
\* engaged or released; an engaged cut denies fuel when cutFuelOnHardLimit is set.
C11_RevLimitHysteresis ==
    [][ lastOp'[1] = "updateState" =>
          LET in == lastOp'[2]
              limit == in.rpmHardLimit
              resume == in.rpmHardLimit - in.rpmHardLimitHyst
          IN  /\ m_revLimit' = limit
              /\ resumeRpm' = resume
              /\ in.rpm > limit => m_revLimitHysteresis'
              /\ (in.rpm < resume /\ in.rpm <= limit) => ~m_revLimitHysteresis'
              /\ (in.rpm >= resume /\ in.rpm <= limit)
                    => m_revLimitHysteresis' = m_revLimitHysteresis
              /\ (m_revLimitHysteresis' /\ in.cutFuelOnHardLimit)
                    => ~m_transientAllowInjection'.value
      ]_vars

\* the cut is still engaged after a tick exactly at the limit
C11_Witness ==
    /\ lastOp[1] = "updateState"
    /\ lastOp[2].rpm = lastOp[2].rpmHardLimit
    /\ lastOp[2].rpmHardLimitHyst > 0
    /\ m_revLimitHysteresis
    /\ m_transientAllowInjection = [value |-> FALSE, clearReason |-> "HardLimit"]

\* C12: the injector duty cut engages in a tick whose duty is above
\* maxInjectorDutyInstant, or whose duty has been above
\* maxInjectorDutySustained on every tick for longer than
\* maxInjectorDutySustainedTimeout; it engages only in a tick whose duty is
\* above one of the two thresholds; once engaged it stays engaged in every
\* tick whose duty is not below 20, and is released by a tick with duty below
\* 20 and no limit tripped; an engaged cut denies fuel.
C12_DutyCutHysteresis ==
    [][ lastOp'[1] = "updateState" =>
          LET in == lastOp'[2]
              duty == in.injDutyCycle
              overInstant == duty > in.maxInjectorDutyInstant
              overSustained == duty > in.maxInjectorDutySustained
              timedOut == dutyOverFor' > in.maxInjectorDutySustainedTimeout
          IN  /\ (overInstant \/ timedOut) => m_injectorDutyCutHysteresis'
              /\ (m_injectorDutyCutHysteresis /\ ~(duty < 20))
                    => m_injectorDutyCutHysteresis'
              /\ (m_injectorDutyCutHysteresis' /\ ~m_injectorDutyCutHysteresis)
                    => (overInstant \/ overSustained)
              /\ (duty < 20 /\ ~overInstant /\ ~overSustained)
                    => ~m_injectorDutyCutHysteresis'
              /\ m_injectorDutyCutHysteresis' => ~m_transientAllowInjection'.value
      ]_vars

\* the cut is held by a duty below both trip thresholds but not below 20
C12_Witness ==
    /\ lastOp[1] = "updateState"
    /\ lastOp[2].injDutyCycle = 50
    /\ dutyOverFor = 0
    /\ m_injectorDutyCutHysteresis
    /\ m_transientAllowInjection = [value |-> FALSE, clearReason |-> "InjectorDutyCycle"]

-----------------------------------------------------------------------------
(* Specification of the throttle setpoint: getSetpointEtb() called with      *)
(* varied tables, idle positions, trims, limits and RPM, the Lua adjustment  *)
(* set and left to go stale, autotune switched on and off                    *)

\* adjustments handed to setLuaAdjustment
LuaAdjustments == {-20, 10}

\* tenths of a second that pass between two calls
TimeSteps == {1, 2}

\* cycles without an ETB rev limit
PlainCycles ==
    {[CycleBase EXCEPT !.tableTarget = t, !.etbIdleThrottleRange = i[1],
                       !.idlePosition = i[2], !.etbMinimumPosition = w[1],
                       !.etbMaximumPosition = w[2]] :
        t \in {0, 20, 40, 100},
        i \in {<<15, 0>>, <<15, 100>>, <<15, 130>>, <<150, 100>>},
        w \in {<<0, 100>>, <<10, 80>>}}
    \cup {[CycleBase EXCEPT !.trim = t, !.tcEtbDrop = d] :
             t \in {-20, 0, 10}, d \in {-30, 0}}
    \cup {[CycleBase EXCEPT !.etbMaximumPosition = 120, !.tableTarget = 100],
          [CycleBase EXCEPT !.etbMinimumPosition = 50, !.etbMaximumPosition = 30]}

\* cycles with the ETB rev limit from 6000 to 7000 RPM; the targets are even,
\* so that the taper at 6500 RPM is a whole percentage
LimitedCycles ==
    {[CycleBase EXCEPT !.etbRevLimitStart = 6000, !.etbRevLimitRange = 1000,
                       !.tableTarget = t, !.etbMinimumPosition = w[1],
                       !.etbMaximumPosition = w[2], !.trim = m] :
        t \in {0, 20, 40, 100}, w \in {<<0, 100>>, <<10, 80>>}, m \in {0, 10}}

SetpointInputs ==
    {[cyc |-> c, rpm |-> 0] : c \in PlainCycles}
    \cup {[cyc |-> CycleBase, rpm |-> 6500]}
    \cup {[cyc |-> c, rpm |-> r] : c \in LimitedCycles,
                                   r \in {0, 6000, 6500, 7000, 7500}}

\* the value logged under a name by the last operation
StepValue(name) ==
    LET i == CHOOSE i \in DOMAIN steps : steps[i][1] = name IN steps[i][2]

\* one call of getSetpointEtb(), the stages of the computation logged
GetSetpointEtbCall ==
    \E in \in SetpointInputs :
        /\ output' = getSetpointEtb(m_isAutotune, m_pedalProvider, in.rpm, in.cyc)
        /\ etbRevLimitActive' =
              revLimitActiveAfter(m_isAutotune, m_pedalProvider, in.rpm, in.cyc)
        /\ steps' = IF m_isAutotune \/ m_pedalProvider = "null" THEN << >>
                    ELSE << <<"targetWithIdlePosition", targetWithIdlePosition(in.cyc)>>,
                            <<"getLuaAdjustment", getLuaAdjustment>>,
                            <<"targetPositionBefore", targetBeforeRevLimit(in.cyc)>>,
                            <<"targetPosition",
                              revLimitTaper(in.cyc, in.rpm,
                                            targetBeforeRevLimit(in.cyc))>> >>
        /\ isOk' = TRUE
        /\ lastOp' = <<"getSetpointEtb", in>>
        /\ UNCHANGED << limpVars, ctlVars, directPwmValue, motorVars, luaVars, env,
                        initResult, runVars, buttonVars, fatalErrorCalled >>

SetLuaAdjustmentCall ==
    \E adjustment \in LuaAdjustments :
        /\ setLuaAdjustment(adjustment)
        /\ lastOp' = <<"setLuaAdjustment", adjustment>>
        /\ UNCHANGED << limpVars, runVars, buttonVars, fatalErrorCalled >>

\* time passes: the Lua adjustment's timer ages
TimePasses ==
    \E dt \in TimeSteps :
        /\ m_luaAdjustmentTimer' = Min2(m_luaAdjustmentTimer + dt, MaxLuaAge)
        /\ lastOp' = <<"time", dt>>
        /\ steps' = << >>
        /\ noCycleLog
        /\ UNCHANGED << limpVars, ctlVars, directPwmValue, motorVars,
                        etbRevLimitActive, luaAdjustment, env, initResult, runVars, buttonVars,
                        fatalErrorCalled >>

SetpointEnvs == {EnvBase, [EnvBase EXCEPT !.etbAutoTune = TRUE]}

NextSetpoint ==
    \/ InitCall({"DC_Throttle1"}, {TRUE})
    \/ EnvChange(SetpointEnvs)
    \/ Update({CycleBase}, MaxEtbFaults)
    \/ SetLuaAdjustmentCall
    \/ TimePasses
    \/ GetSetpointEtbCall

SpecSetpoint == Init /\ [][NextSetpoint]_vars

TaperRpms(cyc) ==
    {in.rpm : in \in {i \in SetpointInputs :
                        /\ i.cyc = cyc
                        /\ i.rpm >= cyc.etbRevLimitStart
                        /\ i.rpm <= cyc.etbRevLimitStart + cyc.etbRevLimitRange}}

\* the taper ran in the last call and moved the target by more than 0.1
TaperChangedTarget ==
    /\ ~m_isAutotune
    /\ m_pedalProvider # "null"
    /\ lastOp[2].cyc.etbRevLimitStart # 0
    /\ 10 * absF(StepValue("targetPosition") - StepValue("targetPositionBefore")) > 1

\* C15: with etbRevLimitStart # 0 the target after the taper equals the target
\* before it at RPM <= etbRevLimitStart, is 0 at RPM >= etbRevLimitStart +
\* etbRevLimitRange and strictly decreases with RPM in between; and after every
\* getSetpointEtb call etbRevLimitActive is true if and only if the taper
\* changed the target by more than 0.1 in that call.
C15_RevLimitTaper ==
    lastOp[1] = "getSetpointEtb" =>
        LET cyc == lastOp[2].cyc
            rpm == lastOp[2].rpm
        IN  /\ ( /\ ~m_isAutotune
                 /\ m_pedalProvider # "null"
                 /\ cyc.etbRevLimitStart # 0 ) =>
                   LET before == StepValue("targetPositionBefore")
                       after  == StepValue("targetPosition")
                   IN  /\ rpm <= cyc.etbRevLimitStart => after = before
                       /\ rpm >= cyc.etbRevLimitStart + cyc.etbRevLimitRange
                             => after = 0
                       /\ \A higher \in TaperRpms(cyc) :
                             (rpm \in TaperRpms(cyc) /\ higher > rpm)
                                => revLimitTaper(cyc, higher, before) < after
            /\ etbRevLimitActive <=> TaperChangedTarget

\* I = 0.01 * etbIdleThrottleRange * clamp(idlePosition, 0, 100)
IdleAddition(cyc) ==
    (cyc.etbIdleThrottleRange * clampPercentValue(cyc.idlePosition)) \div 100

\* the inputs with the idle addition of a cycle and a higher table target
HigherTargets(cyc) ==
    {in.cyc : in \in {i \in SetpointInputs :
                        /\ IdleAddition(i.cyc) = IdleAddition(cyc)
                        /\ i.cyc.tableTarget > cyc.tableTarget}}

\* a getSetpointEtb call that got as far as the idle compression
CompressedIdle ==
    /\ lastOp[1] = "getSetpointEtb"
    /\ ~m_isAutotune
    /\ m_pedalProvider # "null"

\* C16 as stated: a table target of 0 yields I, a table target of 100 yields
\* 100, the mapping is non-decreasing in the table target for fixed I, and the
\* result never exceeds 100 when I <= 100.
C16_Original ==
    CompressedIdle =>
        LET cyc == lastOp[2].cyc
            result == StepValue("targetWithIdlePosition")
        IN  /\ cyc.tableTarget = 0 => result = IdleAddition(cyc)
            /\ cyc.tableTarget = 100 => result = 100
            /\ \A higher \in HigherTargets(cyc) :
                  targetWithIdlePosition(higher) >= result
            /\ IdleAddition(cyc) <= 100 => result <= 100

\* C16: a table target of 0 yields I and a table target of 100 yields 100; when
\* I <= 100 the mapping is non-decreasing in the table target and the result
\* never exceeds 100; when I > 100 the mapping falls from I to 100 instead.
C16_IdleCompression ==
    CompressedIdle =>
        LET cyc == lastOp[2].cyc
            result == StepValue("targetWithIdlePosition")
        IN  /\ cyc.tableTarget = 0 => result = IdleAddition(cyc)
            /\ cyc.tableTarget = 100 => result = 100
            /\ IdleAddition(cyc) <= 100 =>
                  /\ result <= 100
                  /\ \A higher \in HigherTargets(cyc) :
                        targetWithIdlePosition(higher) >= result
            /\ IdleAddition(cyc) > 100 =>
                  /\ result >= 100
                  /\ \A higher \in HigherTargets(cyc) :
                        targetWithIdlePosition(higher) <= result

\* idle fully open with a range of 15 %: a table target of 40 becomes 49
C16_Witness ==
    /\ CompressedIdle
    /\ IdleAddition(lastOp[2].cyc) = 15
    /\ lastOp[2].cyc.tableTarget = 40
    /\ StepValue("targetWithIdlePosition") = 49
    /\ HigherTargets(lastOp[2].cyc) # {}

\* C17: setLuaAdjustment stores the value and restarts the timer, nothing else
\* changes the stored value or makes the timer younger; a getSetpointEtb call
\* made more than 0.2 s after the last setLuaAdjustment adds 0 to the target,
\* an earlier call adds the last value set.
C17_StaleLuaAdjustmentIgnored ==
    [][ /\ lastOp'[1] = "setLuaAdjustment" =>
              /\ luaAdjustment' = lastOp'[2]
              /\ m_luaAdjustmentTimer' = 0
        /\ lastOp'[1] # "setLuaAdjustment" =>
              /\ luaAdjustment' = luaAdjustment
              /\ m_luaAdjustmentTimer' >= m_luaAdjustmentTimer
        /\ (lastOp'[1] = "getSetpointEtb" /\ ~m_isAutotune /\ m_pedalProvider # "null") =>
              LET cyc == lastOp'[2].cyc
                  applied == IF m_luaAdjustmentTimer > LUA_ADJUSTMENT_TIMEOUT
                             THEN 0 ELSE luaAdjustment
              IN  /\ steps'[2] = <<"getLuaAdjustment", applied>>
                  /\ steps'[3] = <<"targetPositionBefore",
                                   clampPercentValue(steps'[1][2] + applied
                                                     + clampF(-10, cyc.trim, 10)
                                                     + cyc.tcEtbDrop)>>
      ]_vars

\* an adjustment of 10 set more than 0.2 s ago: the setpoint is the table value
C17_Witness ==
    /\ CompressedIdle
    /\ lastOp[2] = [cyc |-> CycleBase, rpm |-> 0]
    /\ luaAdjustment = 10
    /\ m_luaAdjustmentTimer > LUA_ADJUSTMENT_TIMEOUT
    /\ StepValue("getLuaAdjustment") = 0
    /\ output = Valid(CycleBase.tableTarget)

\* an adjustment of 10 set 0.2 s ago still counts
C17_FreshWitness ==
    /\ CompressedIdle
    /\ lastOp[2] = [cyc |-> CycleBase, rpm |-> 0]
    /\ luaAdjustment = 10
    /\ m_luaAdjustmentTimer = LUA_ADJUSTMENT_TIMEOUT
    /\ output = Valid(CycleBase.tableTarget + 10)

-----------------------------------------------------------------------------
(* Specification of the calibration sweep: controllers of every function,    *)
(* armed or left without a motor by a failed init, calibration requested     *)
(* with the engine stopped or turning, the throttle moving or stuck          *)

AutocalEnvs ==
    {EnvBase, [EnvBase EXCEPT !.rpm = 1000, !.engineMovedRecently = TRUE]}

\* readings that differ by 3.0 V, by 0.2 V, by exactly 0.5 V, and falling
\* readings of a sensor wired the other way round
AutocalCycles ==
    {CycleBase,
     [CycleBase EXCEPT !.rawPrimaryMax = 12],
     [CycleBase EXCEPT !.rawPrimaryMax = 15],
     [CycleBase EXCEPT !.rawPrimaryMax = 6, !.rawPrimaryMin = 44]}

NextAutocal ==
    \/ EnvChange(AutocalEnvs)
    \/ InitCall(DC_FUNCTIONS, BOOL)
    \/ Update(AutocalCycles, MaxEtbFaults)
    \/ Autocal

SpecAutocal == Init /\ [][NextAutocal]_vars

\* the calibration modes the sweep of a function publishes
SweepCalModes(func) ==
    {functionToCalModePriMax(func), functionToCalModePriMin(func),
     functionToCalModeSecMax(func), functionToCalModeSecMin(func)}

\* the names of the steps in a log
NamesOf(log) == {log[i][1] : i \in DOMAIN log}

\* the value a log holds under a name
ValueOf(log, name) ==
    LET i == CHOOSE i \in DOMAIN log : log[i][1] = name IN log[i][2]

\* C18: an update() that finds the autocal flag set and the primary reading
\* moved by less than 0.5 V between open and closed reports a configuration
\* fault, writes no calibration mode or value, leaves the motor disabled and
\* the flag inactive; an update() that finds the flag set with RPM > 0 or no
\* motor publishes nothing either, touches nothing and clears the flag.
C18_AutocalAbort ==
    [][ (lastOp'[1] = "update" /\ m_isAutocal) =>
          /\ ~m_isAutocal'
          /\ (env.rpm > 0 \/ m_motor = "null") =>
                /\ steps' = << >>
                /\ UNCHANGED motorVars
          /\ ( /\ "primaryMax" \in NamesOf(steps')
               /\ absF(ValueOf(steps', "primaryMax")
                       - ValueOf(steps', "primaryMin")) < 5 ) =>
                /\ "firmwareError" \in NamesOf(steps')
                /\ NamesOf(steps') \cap (SweepCalModes(m_function) \cup {"None"}) = {}
                /\ calibrationMode' = calibrationMode
                /\ ~motorEnabled'
      ]_vars

\* a sweep over a stuck throttle: the fault raised, the motor off, nothing
\* published
C18_Witness ==
    /\ lastOp[1] = "update"
    /\ "primaryMax" \in StepNames
    /\ absF(StepValue("primaryMax") - StepValue("primaryMin")) < 5
    /\ "firmwareError" \in StepNames
    /\ ~m_isAutocal
    /\ ~motorEnabled
    /\ calibrationMode = "None"

\* a calibration request dropped because the engine turns
C18_RunningWitness ==
    /\ lastOp[1] = "update"
    /\ env.rpm > 0
    /\ m_function \in ETB_FUNCTIONS
    /\ steps = << >>
    /\ ~m_isAutocal
    /\ m_motor # "null"

\* the steps of normal control
ControlSteps == {"checkStatus", "getSetpoint", "getClosedLoop", "setOutput"}

\* the steps of the calibration sweep
SweepSteps == {"primaryMax", "secondaryMax", "primaryMin", "secondaryMin"}

\* C19: an update() that finds the autocal flag set runs none of checkStatus,
\* getSetpoint, getClosedLoop and setOutput and leaves the flag cleared on
\* every path; an update() that finds it clear runs no part of the sweep and,
\* given a motor, runs normal control; autoCalibrateTps() sets the flag for
\* Throttle1 and Throttle2 only, and nothing else changes the flag, so each
\* request is served by exactly one update() and the next one is normal again.
C19_AutocalExcludesControl ==
    [][ /\ (lastOp'[1] = "update" /\ m_isAutocal) =>
              /\ NamesOf(steps') \cap ControlSteps = {}
              /\ ~m_isAutocal'
        /\ (lastOp'[1] = "update" /\ ~m_isAutocal) =>
              /\ NamesOf(steps') \cap (SweepSteps \cup SweepCalModes(m_function)) = {}
              /\ ~m_isAutocal'
              /\ m_motor # "null" => "checkStatus" \in NamesOf(steps')
        /\ lastOp'[1] = "etbAutocal" =>
              m_isAutocal' = (m_isAutocal \/ m_function \in ETB_FUNCTIONS)
        /\ lastOp'[1] \notin {"update", "etbAutocal"} => UNCHANGED m_isAutocal
      ]_vars

\* a sweep that ran in place of normal control and gave the flag back
C19_Witness ==
    /\ lastOp[1] = "update"
    /\ SweepSteps \subseteq StepNames
    /\ StepNames \cap ControlSteps = {}
    /\ ~m_isAutocal
    /\ calibrationMode = "None"
    /\ "Tps1SecondaryMin" \in StepNames

\* a calibration request on an idle valve is not taken
C19_IdleValveWitness ==
    /\ lastOp[1] = "etbAutocal"
    /\ m_function = "DC_IdleValve"
    /\ m_motor # "null"
    /\ ~m_isAutocal

\* the last update() published the first value of a sweep
SweepPublished ==
    /\ lastOp[1] = "update"
    /\ functionToCalModePriMax(m_function) \in StepNames

\* position of the step of a name in the log of the last operation
StepIndex(name) == CHOOSE i \in DOMAIN steps : steps[i][1] = name

\* C20: a sweep that publishes does, in this order: motor set to +0.5, motor
\* enabled, primary and secondary reading taken as max, motor set to 0, motor
\* set to -0.5, primary and secondary reading taken as min, motor disabled,
\* then primary max, primary min, secondary max and secondary min published
\* with the readings taken, then calibrationMode set to None; the motor is
\* disabled before the first value is published and stays disabled.
C20_SweepOrder ==
    SweepPublished =>
        /\ Len(steps) = 14
        /\ [i \in 1..9 |-> steps[i][1]] =
              << "motor.set", "motor.enable", "primaryMax", "secondaryMax",
                 "motor.set", "motor.set", "primaryMin", "secondaryMin",
                 "motor.disable" >>
        /\ steps[1][2] = 50 /\ steps[5][2] = 0 /\ steps[6][2] = -50
        /\ steps[10] = <<functionToCalModePriMax(m_function), steps[3][2]>>
        /\ steps[11] = <<functionToCalModePriMin(m_function), steps[7][2]>>
        /\ steps[12] = <<functionToCalModeSecMax(m_function), steps[4][2]>>
        /\ steps[13] = <<functionToCalModeSecMin(m_function), steps[8][2]>>
        /\ steps[14] = <<"None", 0>>
        /\ StepIndex("motor.disable") < StepIndex(functionToCalModePriMax(m_function))
        /\ calibrationMode = "None"
        /\ ~motorEnabled
        /\ ~m_isAutocal

\* the second throttle calibrated with a sensor whose voltage falls as it opens
C20_Witness ==
    /\ SweepPublished
    /\ m_function = "DC_Throttle2"
    /\ StepValue("primaryMax") = 6
    /\ StepValue("Tps2Max") = 6
    /\ StepValue("Tps2Min") = 44
    /\ steps[Len(steps)][1] = "None"
    /\ ~motorEnabled

-----------------------------------------------------------------------------
(* The manual duty override, under the specification of the armed controller *)

\* C21: an update() of a controller with a motor that finds a manual duty set
\* and the autocal flag clear does nothing but set the motor to that duty and
\* the error code to Manual: no checkStatus, no fault counter, setpoint, PID
\* or setOutput; setThrottleDutyCycle(NaN) ends the override, and an update()
\* that finds no override runs checkStatus again.
C21_ManualOverrideBypasses ==
    [][ /\ ( /\ lastOp'[1] = "update"
             /\ ~directPwmValue.nan
             /\ ~m_isAutocal
             /\ m_motor # "null" ) =>
              /\ steps' = << <<"motor.set", directPwmValue.value>> >>
              /\ motorDuty' = directPwmValue.value
              /\ etbErrorCode' = "Manual"
              /\ UNCHANGED << m_function, m_positionSensor, m_motor, m_pid,
                              m_pedalProvider, m_shouldResetPid,
                              etbTpsErrorCounter, etbPpsErrorCounter, hadTpsError,
                              hadPpsError, m_isAutotune, m_isAutocal,
                              m_lastIsPositive, m_autotuneCounter,
                              m_autotuneCurrentParam, motorEnabled,
                              calibrationMode, etbRevLimitActive, directPwmValue >>
        /\ (lastOp'[1] = "setThrottleDutyCycle" /\ lastOp'[2].nan) =>
              directPwmValue' = NAN
        /\ ( /\ lastOp'[1] = "update"
             /\ directPwmValue.nan
             /\ ~m_isAutocal
             /\ m_motor # "null" ) =>
              /\ steps'[1][1] = "checkStatus"
              /\ m_function \in ETB_FUNCTIONS => etbErrorCode' # "Manual"
      ]_vars

\* an override of 120 % applied by update() as a duty of 0.9, with the
\* throttle's sensors failed
C21_Witness ==
    /\ lastOp[1] = "update"
    /\ directPwmValue = Num(ETB_DUTY_LIMIT)
    /\ steps = << <<"motor.set", ETB_DUTY_LIMIT>> >>
    /\ etbErrorCode = "Manual"
    /\ m_function \in ETB_FUNCTIONS

\* normal control back after the override was ended
C21_ResumedWitness ==
    /\ lastOp[1] = "update"
    /\ directPwmValue.nan
    /\ "setOutput" \in StepNames
    /\ motorDuty # ETB_DUTY_LIMIT
    /\ motorEnabled

-----------------------------------------------------------------------------
(* Specification of the fault counters: sensors failing and recovering,      *)
(* autotune and the sensor check switched on and off, resets                 *)

\* cap of the pedal counter explored
MaxPpsCount == 2

CounterEnvs ==
    {EnvBase,
     [EnvBase EXCEPT !.etbAutoTune = TRUE],
     [EnvBase EXCEPT !.analogSensorsShouldWork = FALSE]}

CounterCycles ==
    {[CycleBase EXCEPT !.plantValid = t, !.pedalValid = p] :
        t \in BOOL, p \in BOOL}

\* etbPidReset() called from the console
PidReset ==
    /\ etbPidReset
    /\ lastOp' = <<"etbPidReset", 0>>
    /\ UNCHANGED << limpVars, runVars, buttonVars, fatalErrorCalled >>

\* the step ran checkStatus() for a throttle and read the sensors in it:
\* autotune is not active and the analog sensors are expected to work
SensorsChecked ==
    /\ Len(steps') > 0
    /\ steps'[1][1] = "checkStatus"
    /\ m_function \in ETB_FUNCTIONS
    /\ ~m_isAutotune'
    /\ env.analogSensorsShouldWork

\* the periodic update, the sensor validity of the cycle kept for reference
CounterUpdate ==
    \E cyc \in CounterCycles :
        /\ update(cyc)
        /\ etbTpsErrorCounter' <= MaxFaultCount
        /\ etbPpsErrorCounter' <= MaxPpsCount
        /\ lastOp' = <<"update", [plantValid |-> cyc.plantValid,
                                  pedalValid |-> cyc.pedalValid]>>
        /\ prevPlantValid' = IF SensorsChecked THEN cyc.plantValid
                             ELSE prevPlantValid
        /\ prevPedalValid' = IF SensorsChecked THEN cyc.pedalValid
                             ELSE prevPedalValid
        /\ UNCHANGED << buttonVars, limpVars, tpsInvalidRun, tpsFaultEvents, dutyOverFor,
                        sinceStart, sawPressure, fallingEdges, fatalErrorCalled >>

NextCounters ==
    \/ EnvChange(CounterEnvs)
    \/ InitCall({"DC_Throttle1", "DC_IdleValve"}, {TRUE})
    \/ CounterUpdate
    \/ PidReset

SpecCounters == Init /\ [][NextCounters]_vars

\* checkStatus() ran in the step, for a throttle
CheckedThrottle ==
    /\ lastOp'[1] = "update"
    /\ Len(steps') > 0
    /\ steps'[1][1] = "checkStatus"
    /\ m_function \in ETB_FUNCTIONS

\* C22: after a checkStatus() of a throttle made while autotune is active or
\* while the analog sensors are not expected to work, both fault counters are
\* 0, whatever they were and whatever the sensors read in that cycle.
C22_CountersZeroedWhenUnchecked ==
    [][ (CheckedThrottle /\ (m_isAutotune' \/ ~env.analogSensorsShouldWork)) =>
            /\ etbTpsErrorCounter' = 0
            /\ etbPpsErrorCounter' = 0
      ]_vars

\* autotune zeroed the counters in a cycle whose position read was invalid,
\* after an earlier invalid read had been counted
C22_Witness ==
    /\ lastOp[1] = "update"
    /\ lastOp[2] = [plantValid |-> FALSE, pedalValid |-> FALSE]
    /\ m_isAutotune
    /\ hadTpsError
    /\ hadPpsError
    /\ etbTpsErrorCounter = 0
    /\ etbPpsErrorCounter = 0

-----------------------------------------------------------------------------
(* Specification of the limp manager's vetoes: ticks in which one condition  *)
(* or several at once deny fuel or spark, the ignition switched, fault       *)
(* limits set                                                                *)

\* ticks with more than one veto at a time
VetoCombinations ==
    {[LimpBase EXCEPT !.luaFuelCut = TRUE, !.rpm = 7500],
     [LimpBase EXCEPT !.luaFuelCut = TRUE, !.luaIgnCut = TRUE, !.injDutyCycle = 97],
     [LimpBase EXCEPT !.isInjectionEnabled = FALSE, !.boostCutPressure = 200,
                      !.map = 250],
     [LimpBase EXCEPT !.isIgnitionEnabled = FALSE, !.rpm = 7500],
     [LimpBase EXCEPT !.lambdaCut = TRUE, !.launchFuelCut = TRUE,
                      !.launchSparkCut = TRUE],
     [LimpBase EXCEPT !.gdiCommsLost = TRUE, !.boostCutPressure = 200, !.map = 190],
     [LimpBase EXCEPT !.noPhaseSync = TRUE, !.rpm = 6800]}

VetoInputs == LimpInputs \cup VetoCombinations

\* one tick of the fast callback, everything it read kept for reference
Tick(inputs) ==
    \E in \in inputs :
        /\ updateState(in)
        /\ lastOp' = <<"updateState", in>>
        /\ UNCHANGED << etbVars, runVars, buttonVars, fatalErrorCalled >>

NextVeto ==
    \/ Tick(VetoInputs)
    \/ LimpOnIgnitionStateChanged
    \/ LimpSetFaultRevLimit
    \/ LimpFatalError

SpecVeto == Init /\ [][NextVeto]_vars

\* C23: after each updateState tick the transient injection permission is set
\* if and only if injection is enabled and no fuel veto holds in that tick, and
\* the transient ignition permission if and only if ignition is enabled and no
\* spark veto holds; a veto that holds does not keep a later condition from
\* being evaluated (the rev-limit, boost and duty cuts engage all the same),
\* and the flags of the tick before play no part.
C23_TransientIsUnionOfVetoes ==
    [][ lastOp'[1] = "updateState" =>
          LET in == lastOp'[2]
              ignitionOff == ~m_ignitionOn /\ ~in.directSelfStimulation
              oilAfterStart == /\ in.isRunning
                               /\ in.minOilPressureAfterStart > 0
                               /\ in.hasOilpSensor
                               /\ in.isTimedOut
                               /\ ~m_hadOilPressureAfterStart'
              oilLow == /\ in.isRunning
                        /\ in.oilpValid
                        /\ in.enableOilPressureProtect
                        /\ m_lowOilPressureTimer' > in.minimumOilPressureTimeout
              fuelVeto ==
                  \/ ignitionOff
                  \/ in.gdiCommsLost
                  \/ in.luaFuelCut
                  \/ in.acrCut
                  \/ (m_revLimitHysteresis' /\ in.cutFuelOnHardLimit)
                  \/ in.lambdaCut
                  \/ in.noPhaseSync
                  \/ in.rpm > m_faultRevLimit
                  \/ (in.boostCutPressure # 0 /\ m_boostCutHysteresis')
                  \/ oilAfterStart
                  \/ oilLow
                  \/ in.isEngineStop
                  \/ m_injectorDutyCutHysteresis'
                  \/ ( /\ ~in.isRunning
                       /\ in.isCylinderCleanupEnabled
                       /\ in.driverThrottleIntent > CLEANUP_MODE_TPS )
                  \/ in.launchFuelCut
              sparkVeto ==
                  \/ ignitionOff
                  \/ in.luaIgnCut
                  \/ (m_revLimitHysteresis' /\ in.cutSparkOnHardLimit)
                  \/ in.noPhaseSync
                  \/ in.launchSparkCut
          IN  /\ m_transientAllowInjection'.value
                    <=> (in.isInjectionEnabled /\ ~fuelVeto)
              /\ m_transientAllowIgnition'.value
                    <=> (in.isIgnitionEnabled /\ ~sparkVeto)
              /\ in.rpm > in.rpmHardLimit => m_revLimitHysteresis'
              /\ (in.boostCutPressure # 0 /\ in.map >= in.boostCutPressure)
                    => m_boostCutHysteresis'
              /\ in.injDutyCycle > in.maxInjectorDutyInstant
                    => m_injectorDutyCutHysteresis'
      ]_vars

\* fuel was denied by the Lua cut in the tick before; this tick has no veto
\* and both permissions are back
C23_Witness ==
    /\ lastOp[1] = "updateState"
    /\ lastOp[2] = LimpBase
    /\ m_ignitionOn
    /\ m_transientAllowInjection = ClearableSet
    /\ m_transientAllowIgnition = ClearableSet
    /\ m_lastCutTime = 1

\* a Lua fuel cut at 7500 RPM: the reason is the first veto, and the rev
\* limiter engaged behind it
C23_SeveralWitness ==
    /\ lastOp[1] = "updateState"
    /\ lastOp[2].luaFuelCut
    /\ lastOp[2].rpm > lastOp[2].rpmHardLimit
    /\ m_ignitionOn
    /\ m_transientAllowInjection = [value |-> FALSE, clearReason |-> "Lua"]
    /\ m_transientAllowIgnition = [value |-> FALSE, clearReason |-> "HardLimit"]
    /\ m_revLimitHysteresis

-----------------------------------------------------------------------------
(* Specification of the systemic cuts: oil pressure lost and regained, the   *)
(* injectors over duty, boost over the limit; the fast callback keeps        *)
(* running                                                                   *)

RecoverInputs ==
    {[LimpBase EXCEPT !.enableOilPressureProtect = TRUE, !.oilp = o, !.dt = d] :
        o \in {50, 300, 400}, d \in {0, 1}}
    \cup {[LimpBase EXCEPT !.minOilPressureAfterStart = 200, !.isTimedOut = t,
                           !.oilp = o] : t \in BOOL, o \in {50, 300, 400}}
    \cup {[LimpBase EXCEPT !.injDutyCycle = d] : d \in {10, 15, 50, 97}}
    \cup {[LimpBase EXCEPT !.injDutyCycle = 18, !.maxInjectorDutyInstant = 15]}
    \cup {[LimpBase EXCEPT !.boostCutPressure = 200, !.map = m] :
             m \in {100, 150, 190, 250}}
    \cup {[LimpBase EXCEPT !.isRunning = FALSE, !.rpm = 0]}

NextRecover ==
    \/ Tick(RecoverInputs)
    \/ LimpOnIgnitionStateChanged

\* the fast callback is periodic: ticks never stop coming
SpecRecover == Init /\ [][NextRecover]_vars /\ WF_vars(Tick(RecoverInputs))

\* allowInjection() denies fuel for a reason
DeniedFor(reason) == ~allowInjection.value /\ allowInjection.reason = reason

\* the last tick, if the last step was one, found the engine running and what
\* it read satisfied a condition
RunningTick(Cond(_)) ==
    lastOp[1] = "updateState" => (lastOp[2].isRunning /\ Cond(lastOp[2]))

OilAboveMinimum(in) ==
    /\ in.oilpValid
    /\ in.oilp > in.minPressure
    /\ in.oilp > in.minOilPressureAfterStart

DutyBelowClear(in) == in.injDutyCycle < LOW_DUTY_CLEAR

MapBelowResume(in) ==
    in.boostCutPressure # 0 => in.map < in.boostCutPressure - in.boostCutPressureHyst

\* the post-start oil pressure check has failed
PostStartCheckFailed(in) ==
    /\ in.minOilPressureAfterStart > 0
    /\ in.hasOilpSensor
    /\ in.isTimedOut
    /\ ~m_hadOilPressureAfterStart

NotLatched(in) == OilAboveMinimum(in) /\ ~PostStartCheckFailed(in)

DutyClear(in) ==
    DutyBelowClear(in) /\ ~(in.injDutyCycle > in.maxInjectorDutyInstant)

-----------------------------------------------------------------------------
(* Specification of the oil pressure check after start: the engine started   *)
(* and stopped, time passing, the pressure coming early, late or never       *)

\* getSecondsSinceEngineStart(nowNt) > 5.0f
OIL_START_TIMEOUT == 5

\* ticks of a configuration with the check on (minimum 200 kPa) and a sensor;
\* isTimedOut is worked out from the time the engine has run
OilStartInputs ==
    {[LimpBase EXCEPT !.minOilPressureAfterStart = 200, !.isRunning = r,
                      !.rpm = IF r THEN 1000 ELSE 0, !.oilpValid = v, !.oilp = o,
                      !.dt = d] :
        r \in BOOL, v \in BOOL, o \in {50, 300}, d \in {1, 3}}

\* one tick: the engine has run dt seconds longer, or stands
OilStartTick ==
    \E in0 \in OilStartInputs :
      \E t \in {IF in0.isRunning THEN Min2(sinceStart + in0.dt, MaxSinceStart) ELSE 0} :
        \E in \in {[in0 EXCEPT !.isTimedOut = t > OIL_START_TIMEOUT]} :
            /\ updateState(in)
            /\ sinceStart' = t
            /\ sawPressure' = IF ~in.isRunning THEN FALSE
                              ELSE IF ~in.isTimedOut /\ in.oilpValid
                                      /\ in.oilp > in.minOilPressureAfterStart
                                   THEN TRUE
                                   ELSE sawPressure
            /\ lastOp' = <<"updateState", in>>
            /\ UNCHANGED << buttonVars, etbVars, tpsInvalidRun, tpsFaultEvents, prevPlantValid, prevPedalValid,
                            dutyOverFor, fallingEdges, fatalErrorCalled >>

NextOilStart ==
    \/ OilStartTick
    \/ LimpOnIgnitionStateChanged

SpecOilStart == Init /\ [][NextOilStart]_vars

\* C25: with the post-start check on and a sensor present, a tick within the
\* first 5 s of the run makes no OilPressure cut; a tick after them, with no
\* valid reading above the minimum seen within them, cuts fuel whatever the
\* pressure is now, and so does every later tick of the run; only a tick with
\* the engine not running ends that.
C25_PostStartOilLatch ==
    [][ lastOp'[1] = "updateState" =>
          LET in == lastOp'[2]
              failedBefore == sinceStart > OIL_START_TIMEOUT /\ ~sawPressure
              failedAfter  == sinceStart' > OIL_START_TIMEOUT /\ ~sawPressure'
          IN  /\ (in.isRunning /\ sinceStart' <= OIL_START_TIMEOUT) =>
                    m_transientAllowInjection'.clearReason # "OilPressure"
              /\ (in.isRunning /\ failedAfter) =>
                    /\ ~m_transientAllowInjection'.value
                    /\ ~allowInjection'.value
                    /\ m_ignitionOn =>
                          m_transientAllowInjection'.clearReason = "OilPressure"
              /\ (in.isRunning /\ sinceStart' > OIL_START_TIMEOUT /\ sawPressure') =>
                    m_transientAllowInjection'.clearReason # "OilPressure"
              /\ (failedBefore /\ in.isRunning) => failedAfter
              /\ (failedBefore /\ ~failedAfter) => ~in.isRunning
              /\ ~in.isRunning =>
                    m_transientAllowInjection'.clearReason # "OilPressure"
      ]_vars

\* the pressure came too late: 300 kPa is read in a tick after the 5 s, and
\* fuel is cut
C25_Witness ==
    /\ lastOp[1] = "updateState"
    /\ lastOp[2].isRunning
    /\ lastOp[2].isTimedOut
    /\ lastOp[2].oilpValid
    /\ lastOp[2].oilp > lastOp[2].minOilPressureAfterStart
    /\ sinceStart > OIL_START_TIMEOUT
    /\ ~sawPressure
    /\ m_ignitionOn
    /\ DeniedFor("OilPressure")

\* the pressure came in time: no cut after the 5 s
C25_InTimeWitness ==
    /\ lastOp[1] = "updateState"
    /\ lastOp[2].isRunning
    /\ sinceStart > OIL_START_TIMEOUT
    /\ sawPressure
    /\ lastOp[2].oilp < lastOp[2].minOilPressureAfterStart
    /\ m_ignitionOn
    /\ allowInjection.value

-----------------------------------------------------------------------------
(* Specification of autotune: the relay switched on and off with the engine  *)
(* stopped or turning, the controller initialised for any function, the      *)
(* position read above or below the target                                   *)

\* falling edges of the relay followed
MaxEdges == 20

AutotuneEnvs ==
    {EnvBase,
     [EnvBase EXCEPT !.etbAutoTune = TRUE],
     [EnvBase EXCEPT !.etbAutoTune = TRUE, !.rpm = 1000,
                     !.engineMovedRecently = TRUE]}

\* a PID output that is neither -20 nor 20; positions on both sides of 50
AutotuneCycles ==
    {[CycleBase EXCEPT !.plantValue = v, !.pidOutput = 7] : v \in {30, 70}}
        \cup {[CycleBase EXCEPT !.plantValid = FALSE, !.pidOutput = 7]}

\* the step ran getClosedLoop()
RanClosedLoop == \E i \in DOMAIN steps : steps[i][1] = "getClosedLoop"

\* the step ran getClosedLoopAutotune() at the end of a cycle of the relay:
\* the position was above the target in the relay's previous call and is not now
RelayFallingEdge(cyc) ==
    /\ RanClosedLoop'
    /\ m_isAutotune'
    /\ m_lastIsPositive
    /\ ~(cyc.plantValue >
            getSetpoint(m_function, m_isAutotune', m_pedalProvider, env.rpm,
                        cyc).value)

\* the periodic update, the cycle's readings kept for reference
AutotuneUpdate ==
    \E cyc \in AutotuneCycles :
        /\ update(cyc)
        /\ fallingEdges' = IF RelayFallingEdge(cyc) THEN fallingEdges + 1
                           ELSE fallingEdges
        /\ fallingEdges' <= MaxEdges
        /\ etbTpsErrorCounter' <= MaxEtbFaults
        /\ lastOp' = <<"update", cyc>>
        /\ UNCHANGED << buttonVars, limpVars, tpsInvalidRun, tpsFaultEvents, prevPlantValid, prevPedalValid,
                        dutyOverFor, sinceStart, sawPressure, fatalErrorCalled >>

NextAutotune ==
    \/ EnvChange(AutotuneEnvs)
    \/ InitCall(DC_FUNCTIONS \ {"DC_None"}, {TRUE})
    \/ AutotuneUpdate

SpecAutotune == Init /\ [][NextAutotune]_vars

\* RPM == 0, etbAutoTune set, function Throttle1
AutotuneRequested ==
    env.rpm = 0 /\ env.etbAutoTune /\ m_function = "DC_Throttle1"

\* the relay's output for a position: -20 above the target, +20 otherwise
RelayOutput(position, target) == IF position > target THEN -20 ELSE 20

\* C26: in an update() that reaches the closed loop, if RPM == 0, etbAutoTune
\* is set and the function is Throttle1 then the setpoint is 50 and the
\* closed-loop term is -20 with the position above 50 and +20 otherwise, the
\* PID's output not being used; in every other case (Throttle2, IdleValve,
\* Wastegate, RPM not 0, autotune not requested) autotune is not active and
\* the closed-loop term is the PID's output.
C26_AutotuneOnlyFirstThrottle ==
    [][ (lastOp'[1] = "update" /\ RanClosedLoop') =>
          LET cyc == lastOp'[2]
              openLoop == getOpenLoop(m_function, cyc).value
              setpoint == getSetpoint(m_function, m_isAutotune', m_pedalProvider,
                                      env.rpm, cyc)
          IN  /\ m_isAutotune' <=> AutotuneRequested
              /\ output'.valid
              /\ IF AutotuneRequested
                 THEN /\ setpoint = Valid(50)
                      /\ output'.value =
                            openLoop + RelayOutput(cyc.plantValue, 50)
                 ELSE output'.value = openLoop + cyc.pidOutput
      ]_vars

\* the part of C26 about a controller that is, or is initialised as, a
\* throttle: the relay runs exactly when autotune is requested
C26_RelayOnThrottles ==
    [][ (lastOp'[1] = "update" /\ RanClosedLoop' /\ m_function \in ETB_FUNCTIONS) =>
          LET cyc == lastOp'[2]
              openLoop == getOpenLoop(m_function, cyc).value
          IN  /\ m_isAutotune' <=> AutotuneRequested
              /\ output'.value =
                    openLoop + (IF AutotuneRequested
                                THEN RelayOutput(cyc.plantValue, 50)
                                ELSE cyc.pidOutput)
      ]_vars

\* an idle valve driven by the relay: a controller that ran autotune as
\* Throttle1 and was initialised again as an idle valve
C26_StaleRelayWitness ==
    /\ lastOp[1] = "update"
    /\ m_function = "DC_IdleValve"
    /\ RanClosedLoop
    /\ m_isAutotune
    /\ output = Valid(-20)

\* the calibration modes autotune publishes, by parameter index: P, I, D
AutotuneModes == <<"EtbKp", "EtbKi", "EtbKd">>

\* the autotune parameters an operation published, from its log
AutotunePublished(log) ==
    {log[i][1] : i \in DOMAIN log} \cap {AutotuneModes[k] : k \in 1..3}

\* the parameter index that goes with the n-th falling edge: five edges each
\* for P, I, D, P, ...
ParamOfEdge(n) == ((n - 1) \div 5) % 3

\* C27: starting from parameter P with the cycle counter at 0, the n-th
\* falling edge of (observed > target) seen by the relay publishes P for n in
\* 1..5, I for 6..10, D for 11..15, P again for 16..20, and so on: the index
\* advances once every 5 falling edges; an update() without a falling edge
\* publishes no autotune parameter and leaves the index and the counter alone.
C27_ParamRoundRobin ==
    [][ lastOp'[1] = "update" =>
          IF RelayFallingEdge(lastOp'[2])
          THEN LET n == fallingEdges' IN
               /\ n = fallingEdges + 1
               /\ AutotunePublished(steps') = {AutotuneModes[ParamOfEdge(n) + 1]}
               /\ calibrationMode' = AutotuneModes[ParamOfEdge(n) + 1]
               /\ m_autotuneCurrentParam' = ParamOfEdge(n)
               /\ m_autotuneCounter' = ((n - 1) % 5) + 1
          ELSE /\ AutotunePublished(steps') = {}
               /\ UNCHANGED << m_autotuneCurrentParam, m_autotuneCounter,
                               calibrationMode, fallingEdges >>
      ]_vars

\* the 16th falling edge published P again, after I and D
C27_Witness ==
    /\ lastOp[1] = "update"
    /\ fallingEdges = 16
    /\ AutotunePublished(steps) = {"EtbKp"}
    /\ m_autotuneCurrentParam = 0
    /\ m_autotuneCounter = 1

\* the 6th falling edge was the first to publish I
C27_AdvanceWitness ==
    /\ lastOp[1] = "update"
    /\ fallingEdges = 6
    /\ AutotunePublished(steps) = {"EtbKi"}
    /\ m_autotuneCounter = 1

-----------------------------------------------------------------------------
(* Specification of the PID reset request: configuration changes with the    *)
(* same or other PID parameters, console resets, initialisations that pass,  *)
(* fail or are skipped, and the periodic update                              *)

PidResetEnvs ==
    {EnvBase,
     [EnvBase EXCEPT !.etbFunction = "DC_None"],
     [EnvBase EXCEPT !.sensors = {"Tps1", "Tps2"}],
     [EnvBase EXCEPT !.luaDisableEtb = TRUE]}

PidResetCycles ==
    {CycleBase, [CycleBase EXCEPT !.plantValid = FALSE]}

\* the configuration change callback, what it was handed kept for reference
PidConfigurationChange ==
    \E pidSame \in BOOL :
        /\ onConfigurationChange(pidSame)
        /\ lastOp' = <<"onConfigurationChange", [pidSame |-> pidSame]>>
        /\ UNCHANGED << limpVars, runVars, buttonVars, fatalErrorCalled >>

\* the periodic update, with the name of the operation it follows
PidResetUpdate ==
    \E cyc \in PidResetCycles :
        /\ update(cyc)
        /\ etbTpsErrorCounter' <= MaxEtbFaults
        /\ lastOp' = <<"update", [after |-> lastOp[1]]>>
        /\ UNCHANGED << limpVars, runVars, buttonVars, fatalErrorCalled >>

NextPidReset ==
    \/ EnvChange(PidResetEnvs)
    \/ InitCall({"DC_Throttle1", "DC_IdleValve"}, {TRUE})
    \/ PidConfigurationChange
    \/ PidResetUpdate
    \/ PidReset

SpecPidReset == Init /\ [][NextPidReset]_vars

\* positions in the log of the last operation of the steps of that name
StepsNamed(log, name) == {i \in DOMAIN log : log[i][1] = name}

\* C28: onConfigurationChange() on an armed controller with PID parameters
\* that differ from the previous ones leaves m_shouldResetPid set; a
\* getClosedLoop() call that finds the flag set resets the PID once, before
\* anything else it does, and clears the flag; one that finds it clear does
\* not reset the PID; the flag is cleared by nothing but getClosedLoop() and
\* set by nothing but reset() (from init() or the console) and
\* onConfigurationChange().
C28_ConfigChangeResetsPidOnce ==
    [][ /\ (/\ lastOp'[1] = "onConfigurationChange"
            /\ m_motor # "null"
            /\ ~lastOp'[2].pidSame) => m_shouldResetPid'
        /\ (lastOp'[1] = "update" /\ RanClosedLoop') =>
              LET called == StepsNamed(steps', "getClosedLoop")
                  resets == StepsNamed(steps', "pid.reset")
              IN  /\ Cardinality(called) = 1
                  /\ ~m_shouldResetPid'
                  /\ IF m_shouldResetPid
                     THEN \A i \in called : resets = {i + 1}
                     ELSE resets = {}
        /\ (lastOp'[1] = "update" /\ ~RanClosedLoop') =>
              /\ StepsNamed(steps', "pid.reset") = {}
              /\ m_shouldResetPid' = m_shouldResetPid
        /\ (m_shouldResetPid /\ ~m_shouldResetPid') => lastOp'[1] = "update"
        /\ (~m_shouldResetPid /\ m_shouldResetPid') =>
              lastOp'[1] \in {"init", "onConfigurationChange", "etbPidReset"}
      ]_vars

\* the update() after a configuration change reset the PID and cleared the flag
C28_Witness ==
    /\ lastOp[1] = "update"
    /\ lastOp[2].after = "onConfigurationChange"
    /\ StepsNamed(steps, "pid.reset") # {}
    /\ ~m_shouldResetPid
    /\ output.valid

\* the flag set by the changed PID parameters alone: the controller is armed
\* and the configuration no longer gives it a function, so that init() is not
\* called again
C28_ChangedPidWitness ==
    /\ lastOp[1] = "onConfigurationChange"
    /\ ~lastOp[2].pidSame
    /\ env.etbFunction = "DC_None"
    /\ m_motor # "null"
    /\ m_shouldResetPid

\* a later update() ran the closed loop without resetting the PID
C28_NoSecondResetWitness ==
    /\ lastOp[1] = "update"
    /\ lastOp[2].after = "update"
    /\ RanClosedLoop
    /\ StepsNamed(steps, "pid.reset") = {}

-----------------------------------------------------------------------------
(* The fault counters as counters of new faults, under SpecCounters *)

\* what a checked read adds to its counter: 1 for an invalid read that follows
\* a valid checked read, 0 otherwise
NewFault(valid, previousValid) == IF ~valid /\ previousValid THEN 1 ELSE 0

\* the step zeroes the counters: reset() from an init() that passes or from
\* the console, or a checkStatus() of a throttle that does not read the sensors
ZeroingStep ==
    \/ lastOp'[1] = "init" /\ initResult'
    \/ lastOp'[1] = "etbPidReset"
    \/ CheckedThrottle /\ (m_isAutotune' \/ ~env.analogSensorsShouldWork)

\* C29: a checkStatus() that reads the sensors adds 1 to etbTpsErrorCounter
\* when the position read is invalid and the previously checked one was
\* valid, and 0 otherwise, so that a run of invalid reads adds 1 in all; the
\* same for etbPpsErrorCounter and the pedal read. No other step changes a
\* counter except to 0, through reset() or a checkStatus() with autotune
\* active or the sensor check off. Hence a checkStatus() that finds the
\* position counter above the limit, and is not such a zeroing, reports
\* IntermittentTps again.
C29_CountersCountNewFaults ==
    [][ /\ (lastOp'[1] = "update" /\ SensorsChecked) =>
              /\ etbTpsErrorCounter' = etbTpsErrorCounter
                    + NewFault(lastOp'[2].plantValid, prevPlantValid)
              /\ etbPpsErrorCounter' = etbPpsErrorCounter
                    + NewFault(lastOp'[2].pedalValid, prevPedalValid)
              /\ (etbErrorCode' = "IntermittentTps")
                    <=> (etbTpsErrorCounter' > ETB_INTERMITTENT_LIMIT)
              /\ (etbTpsErrorCounter > ETB_INTERMITTENT_LIMIT) =>
                    (etbErrorCode' = "IntermittentTps" /\ ~isOk')
        /\ ~(lastOp'[1] = "update" /\ SensorsChecked) =>
              /\ (etbTpsErrorCounter' # etbTpsErrorCounter) =>
                    (etbTpsErrorCounter' = 0 /\ ZeroingStep)
              /\ (etbPpsErrorCounter' # etbPpsErrorCounter) =>
                    (etbPpsErrorCounter' = 0 /\ ZeroingStep)
      ]_vars

\* IntermittentTps reported again in a cycle whose position read was valid:
\* the 51 faults counted earlier still stand
C29_Witness ==
    /\ lastOp[1] = "update"
    /\ lastOp[2].plantValid
    /\ prevPlantValid
    /\ etbTpsErrorCounter = 51
    /\ etbErrorCode = "IntermittentTps"
    /\ ~isOk

\* an invalid pedal read of a throttle, the pedal counter standing at 1 and no
\* fault reported
C29_RunWitness ==
    /\ lastOp[1] = "update"
    /\ ~lastOp[2].pedalValid
    /\ hadPpsError
    /\ etbPpsErrorCounter = 1
    /\ etbTpsErrorCounter = 0
    /\ m_function = "DC_Throttle1"
    /\ etbErrorCode = "None"

-----------------------------------------------------------------------------
(* Specification of the duty handed to the motor: closed-loop outputs inside *)
(* and outside +-90 %, manual duty requests, calibration sweeps              *)

DutyEnvs ==
    {EnvBase, [EnvBase EXCEPT !.rpm = 1000, !.engineMovedRecently = TRUE]}

\* combined outputs of 25 %, 155 % and -195 %, and an output that is not
\* valid and holds 120
DutyCycles ==
    {CycleBase,
     [CycleBase EXCEPT !.pidOutput = 150],
     [CycleBase EXCEPT !.pidOutput = -200],
     [CycleBase EXCEPT !.plantValid = FALSE, !.garbage = 120]}

NextDuty ==
    \/ EnvChange(DutyEnvs)
    \/ InitCall({"DC_Throttle1", "DC_IdleValve"}, {TRUE})
    \/ Update(DutyCycles, MaxEtbFaults)
    \/ Autocal
    \/ SetThrottleDutyCycle(DutyLevels)

SpecDuty == Init /\ [][NextDuty]_vars

\* the duties the last operation handed to the motor, in order
DutiesSet ==
    LET sets == SelectSeq(steps, LAMBDA s : s[1] = "motor.set")
    IN  [i \in DOMAIN sets |-> sets[i][2]]

\* 0.01 * percent brought into [-0.9, 0.9], in hundredths
WithinLimit(percent) ==
    IF percent > 90 THEN 90 ELSE IF percent < -90 THEN -90 ELSE percent

\* C30: every duty handed to the motor lies in [-0.9, 0.9]: setOutput() hands
\* over 0.01 * output brought into that range, whatever the output;
\* setThrottleDutyCycle() stores and applies the level brought into that
\* range; the calibration sweep hands over 0.5, 0 and -0.5 and nothing else.
C30_DutyWithinLimit ==
    /\ \A i \in DOMAIN DutiesSet : DutiesSet[i] \in -90..90
    /\ motorDuty \in -90..90
    /\ ~directPwmValue.nan => directPwmValue.value \in -90..90
    /\ (lastOp[1] = "update" /\ "setOutput" \in StepNames /\ Drove /\ output.valid)
          => DutiesSet = << WithinLimit(output.value) >>
    /\ (lastOp[1] = "setThrottleDutyCycle" /\ ~lastOp[2].nan)
          => /\ directPwmValue = Num(WithinLimit(lastOp[2].value))
             /\ DutiesSet = << WithinLimit(lastOp[2].value) >>
    /\ (lastOp[1] = "update" /\ StepNames \cap SweepSteps # {})
          => DutiesSet = << 50, 0, -50 >>

\* a combined output of -195 % handed to the motor as -0.9
C30_Witness ==
    /\ lastOp[1] = "update"
    /\ Drove
    /\ output = Valid(-195)
    /\ DutiesSet = << -90 >>
    /\ motorDuty = -90

\* a manual request of 120 % stored as 0.9 and handed on by update()
C30_ManualWitness ==
    /\ lastOp[1] = "update"
    /\ directPwmValue = Num(90)
    /\ DutiesSet = << 90 >>

\* a calibration sweep
C30_SweepWitness ==
    /\ lastOp[1] = "update"
    /\ DutiesSet = << 50, 0, -50 >>

-----------------------------------------------------------------------------
(* The conditions that cut fuel alone, under SpecVeto *)

\* the reason a tick denies ignition for, first match first in the order of
\* the code; "None" when it does not deny it
SparkDenial(in, ignitionOff, hardLimit) ==
    IF ~in.isIgnitionEnabled THEN "Settings"
    ELSE IF ignitionOff THEN "IgnitionOff"
    ELSE IF in.luaIgnCut THEN "Lua"
    ELSE IF hardLimit /\ in.cutSparkOnHardLimit THEN "HardLimit"
    ELSE IF in.noPhaseSync THEN "EnginePhase"
    ELSE IF in.launchSparkCut THEN "LaunchCut"
    ELSE "None"

\* the reasons of the conditions that cut fuel alone
FuelOnlyReasons ==
    {"FaultRevLimit", "BoostCut", "OilPressure", "StopRequested",
     "InjectorDutyCycle", "FloodClear", "GdiComms", "LambdaProtection"}

\* C31: the ignition permission a tick of updateState leaves is settled by
\* ignition-off, the Lua ignition cut, the hard rev limit with
\* cutSparkOnHardLimit, missing phase sync and the launch-control spark
\* retard alone (ignition being enabled in the configuration); a tick in which
\* the fault RPM ceiling, the boost cut, an oil pressure check, a stop
\* request, the injector duty cut, flood clear, lost GDI comms or lambda
\* protection denies fuel leaves the ignition permission as those five
\* conditions make it.
C31_FuelOnlyCutsLeaveSpark ==
    [][ lastOp'[1] = "updateState" =>
          LET in == lastOp'[2]
              ignitionOff == ~m_ignitionOn /\ ~in.directSelfStimulation
              denial == SparkDenial(in, ignitionOff, m_revLimitHysteresis')
          IN  /\ m_transientAllowIgnition' =
                    [value |-> denial = "None", clearReason |-> denial]
              /\ m_transientAllowIgnition'.clearReason \notin FuelOnlyReasons
              /\ (in.isInjectionEnabled /\ in.rpm > m_faultRevLimit)
                    => ~m_transientAllowInjection'.value
      ]_vars

\* a tick above the fault RPM ceiling: fuel denied, ignition allowed
C31_Witness ==
    /\ lastOp[1] = "updateState"
    /\ lastOp[2].rpm > m_faultRevLimit
    /\ m_transientAllowInjection = [value |-> FALSE, clearReason |-> "FaultRevLimit"]
    /\ m_transientAllowIgnition = ClearableSet

\* a boost cut: fuel denied, ignition allowed
C31_BoostWitness ==
    /\ lastOp[1] = "updateState"
    /\ m_transientAllowInjection = [value |-> FALSE, clearReason |-> "BoostCut"]
    /\ m_transientAllowIgnition = ClearableSet

-----------------------------------------------------------------------------
(* What allowInjection() and allowIgnition() report, under SpecVeto *)

\* what a query reports for a persistent and a transient flag, as the claim
\* has it
Reported(persistent, transient) ==
    IF ~persistent.value THEN [value |-> FALSE, reason |-> "Fatal"]
    ELSE IF ~transient.value
    THEN [value |-> FALSE, reason |-> transient.clearReason]
    ELSE [value |-> TRUE, reason |-> "None"]

\* C32: allowInjection() reports allowed, with reason None, if and only if the
\* persistent and the transient injection flags are both set; with the
\* persistent flag cleared it reports Fatal, whatever the transient flag and
\* its reason; otherwise it reports the reason of the transient flag; a denial
\* never has the reason None. The same for allowIgnition().
C32_DenialCarriesReason ==
    /\ allowInjection = Reported(m_allowInjection, m_transientAllowInjection)
    /\ allowIgnition = Reported(m_allowIgnition, m_transientAllowIgnition)
    /\ allowInjection.value
          <=> (m_allowInjection.value /\ m_transientAllowInjection.value)
    /\ allowIgnition.value
          <=> (m_allowIgnition.value /\ m_transientAllowIgnition.value)
    /\ allowInjection.value <=> (allowInjection.reason = "None")
    /\ allowIgnition.value <=> (allowIgnition.reason = "None")

\* after a fatal error, with the Lua fuel cut of the last tick standing: the
\* reason reported for injection is Fatal
C32_Witness ==
    /\ ~m_allowInjection.value
    /\ m_transientAllowInjection = [value |-> FALSE, clearReason |-> "Lua"]
    /\ allowInjection = [value |-> FALSE, reason |-> "Fatal"]

\* injection disabled in the configuration: a denial with the reason of the
\* flag built from the setting
C32_SettingsWitness ==
    /\ lastOp[1] = "updateState"
    /\ ~lastOp[2].isInjectionEnabled
    /\ m_allowInjection.value
    /\ ~allowInjection.value
    /\ allowInjection.reason = "Settings"

-----------------------------------------------------------------------------
(* Specification of the start/stop button: the slow callback called again    *)
(* and again, the button pressed, held and released, the engine stopped,     *)
(* cranking or running                                                       *)

\* presses followed
MaxToggles == 3

\* a call at time t: the button read pressed or not, the engine stopped,
\* turning without running yet, or running
ButtonInputs(t) ==
    {[ButtonBase EXCEPT !.pin = p, !.isStopped = (e = "STOPPED"),
                        !.isRunning = (e = "RUNNING"), !.nowNt = t] :
        p \in BOOL, e \in {"STOPPED", "CRANKING", "RUNNING"}}

\* one call of the callback, dt seconds after the last one
ButtonCall(dt) ==
    \E in \in ButtonInputs(now + dt) :
        /\ slowStartStopButtonCallback(in)
        /\ startStopStateToggleCounter' <= MaxToggles
        /\ now' = IF startStopStateLastPushTime' = 0 THEN 1 ELSE in.nowNt
        /\ lastOp' = <<"slowStartStopButtonCallback", in>>
        /\ UNCHANGED << limpVars, ctlVars, directPwmValue, motorVars,
                        etbRevLimitActive, luaVars, env, isOk, output,
                        initResult, runVars, fatalErrorCalled >>

\* a call within the same second as the last one
QuickCall == ButtonCall(0)

\* a call a second later
TimedCall == ButtonCall(1)

NextButton == QuickCall \/ TimedCall

\* the callback keeps being called as time passes
SpecButton == Init /\ [][NextButton]_vars /\ WF_vars(TimedCall)

\* the toggle handler ran in the last operation
ToggleRan == StepsNamed(steps, "toggle") # {}

\* C33: in every call of slowStartStopButtonCallback the toggle handler runs,
\* once, if and only if the button reads true and the stored startStopState
\* was false, and startStopStateToggleCounter goes up by exactly 1 in such a
\* call and by 0 in any other; a button held across several calls triggers
\* the handler in the first of them only; after every call the stored state
\* is the value read.
C33_ButtonEdge ==
    [][ lastOp'[1] = "slowStartStopButtonCallback" =>
          LET in == lastOp'[2] IN
          /\ ToggleRan' <=> (in.pin /\ ~startStopState)
          /\ Cardinality(StepsNamed(steps', "toggle")) <= 1
          /\ startStopStateToggleCounter' =
                startStopStateToggleCounter + (IF ToggleRan' THEN 1 ELSE 0)
          /\ (startStopState /\ in.pin) =>
                startStopStateToggleCounter' = startStopStateToggleCounter
          /\ startStopState' = in.pin
      ]_vars

\* the button held: a call that read it pressed again after the one press
\* counted, and did not run the handler
C33_Witness ==
    /\ lastOp[1] = "slowStartStopButtonCallback"
    /\ lastOp[2].pin
    /\ startStopState
    /\ ~ToggleRan
    /\ startStopStateToggleCounter = 1

\* the button released and pressed again: the second press counted
C33_SecondPressWitness ==
    /\ lastOp[1] = "slowStartStopButtonCallback"
    /\ ToggleRan
    /\ startStopStateToggleCounter = 2

\* the operation set the starter output to 1
EngagedStarter(log) == \E i \in DOMAIN log : log[i] = <<"starter.set", 1>>

\* the operation stored a push time
RecordedPush(log) == \E i \in DOMAIN log : log[i][1] = "pushTime" /\ log[i][2] # 0

\* the operation called doScheduleStopEngine()
ScheduledStop(log) == StepsNamed(log, "doScheduleStopEngine") # {}

\* C34: a press of the start/stop button with the engine stopped sets the
\* starter output to 1 and stores the time of the press if and only if the
\* starter output was not 1 already, and schedules no stop; with the engine
\* running it schedules an engine stop and neither sets the starter output to
\* 1 nor stores a push time; with the engine neither stopped nor running it
\* does none of the three; a call without a press does none of them either.
C34_PressActsByEngineState ==
    [][ lastOp'[1] = "slowStartStopButtonCallback" =>
          LET in == lastOp'[2]
              engaged == EngagedStarter(steps')
              pushed == RecordedPush(steps')
              stopping == ScheduledStop(steps')
          IN  /\ (ToggleRan' /\ in.isStopped) =>
                    /\ engaged
                    /\ pushed <=> ~starterControl
                    /\ pushed => /\ <<"pushTime", in.nowNt>> \in
                                        {steps'[i] : i \in DOMAIN steps'}
                                 /\ startStopStateLastPushTime' = in.nowNt
                                 /\ starterControl'
                    /\ ~stopping
              /\ (ToggleRan' /\ ~in.isStopped /\ in.isRunning) =>
                    (stopping /\ ~engaged /\ ~pushed)
              /\ (ToggleRan' /\ ~in.isStopped /\ ~in.isRunning) =>
                    /\ ~stopping /\ ~engaged /\ ~pushed
                    /\ startStopStateLastPushTime = 0 =>
                          /\ starterControl' = starterControl
                          /\ startStopStateLastPushTime' = 0
              /\ ~ToggleRan' => (~stopping /\ ~engaged /\ ~pushed)
      ]_vars

\* a press with the engine stopped and the starter at rest: the starter
\* engaged and the time of the press stored
C34_Witness ==
    /\ lastOp[1] = "slowStartStopButtonCallback"
    /\ ToggleRan
    /\ lastOp[2].isStopped
    /\ starterControl
    /\ startStopStateLastPushTime = lastOp[2].nowNt
    /\ RecordedPush(steps)

\* a second press with the engine still stopped and the starter engaged: the
\* time of the first press is kept
C34_AlreadyEngagedWitness ==
    /\ lastOp[1] = "slowStartStopButtonCallback"
    /\ ToggleRan
    /\ lastOp[2].isStopped
    /\ EngagedStarter(steps)
    /\ ~RecordedPush(steps)
    /\ starterControl
    /\ startStopStateLastPushTime < lastOp[2].nowNt

\* a press with the engine running: a stop scheduled
C34_StopWitness ==
    /\ lastOp[1] = "slowStartStopButtonCallback"
    /\ ToggleRan
    /\ lastOp[2].isRunning
    /\ ScheduledStop(steps)
    /\ ~starterControl

\* the operation set the starter output to 0
ReleasedStarter(log) == \E i \in DOMAIN log : log[i] = <<"starter.set", 0>>

\* the push that is pending once the toggle handler of this call, if any, has
\* run: the time of this press if it engaged the starter, else the time
\* stored before; 0 if none
PendingPush(in) ==
    IF in.pin /\ ~startStopState /\ in.isStopped /\ ~starterControl
    THEN in.nowNt
    ELSE startStopStateLastPushTime

\* the engine runs, or more than startCrankingDuration seconds have passed
\* since the push
CrankingOver(in) ==
    in.isRunning \/ in.nowNt - PendingPush(in) > in.startCrankingDuration

\* a starter engaged by the button: the output is 1 and a push time is stored
EngagedByButton == starterControl /\ startStopStateLastPushTime # 0

\* C35: while a push is pending, the first call of the callback in which the
\* engine is running or more than startCrankingDuration seconds have passed
\* since the push sets the starter output to 0 and the push time to 0, and a
\* call before that leaves both alone; a call with no push pending does not
\* set the starter output to 0; hence, the callback being called as time
\* passes, a starter engaged by the button is released.
C35_StarterReleased ==
    /\ [][ lastOp'[1] = "slowStartStopButtonCallback" =>
              LET in == lastOp'[2] IN
              /\ PendingPush(in) = 0 =>
                    /\ ~ReleasedStarter(steps')
                    /\ startStopStateLastPushTime' = 0
              /\ (PendingPush(in) # 0 /\ CrankingOver(in)) =>
                    /\ ReleasedStarter(steps')
                    /\ ~starterControl'
                    /\ startStopStateLastPushTime' = 0
              /\ (PendingPush(in) # 0 /\ ~CrankingOver(in)) =>
                    /\ ~ReleasedStarter(steps')
                    /\ starterControl'
                    /\ startStopStateLastPushTime' = PendingPush(in)
          ]_vars
    /\ EngagedByButton ~> (~starterControl /\ startStopStateLastPushTime = 0)

\* cranking given up: the engine is not running, the starter was switched off
\* and the push forgotten
C35_Witness ==
    /\ lastOp[1] = "slowStartStopButtonCallback"
    /\ ~lastOp[2].isRunning
    /\ ReleasedStarter(steps)
    /\ ~starterControl
    /\ startStopStateLastPushTime = 0

\* the engine started: the starter switched off before the time was up
C35_RunningWitness ==
    /\ lastOp[1] = "slowStartStopButtonCallback"
    /\ lastOp[2].isRunning
    /\ ReleasedStarter(steps)
    /\ ~starterControl
    /\ startStopStateLastPushTime = 0
    /\ now = 1

\* cranking for exactly startCrankingDuration seconds: the starter is still
\* engaged
C35_StillCrankingWitness ==
    /\ lastOp[1] = "slowStartStopButtonCallback"
    /\ EngagedByButton
    /\ lastOp[2].nowNt - startStopStateLastPushTime = lastOp[2].startCrankingDuration


=============================================================================
